---- MODULE Spec2Model ----
(***************************************************************************)
(* A model of pygeonlp's lattice pipeline: the lattice chunker             *)
(* (Workflow / Parser.get_processible_lattice_part), the path enumerator   *)
(* (linker.LinkedResults), the ranker (linker.RankedResults), the filters  *)
(* (filter.py, spatial_filter.py, temporal_filter.py) and the address      *)
(* resolver (Parser.get_addresses / add_address_candidates).               *)
(*                                                                         *)
(* Indices pos_from, pos_to, counters, ... are Python's (0-based); a       *)
(* Python slice l[a:b] is Slice(l, a, b).                                  *)
(***************************************************************************)
EXTENDS Integers, Sequences, FiniteSets, TLC

VARIABLES
    lattice,     \* the lattice being processed: a sequence of candidate lists
    pos_from,    \* chunker: start of the current window
    pos_to,      \* chunker: end (exclusive) of the current window
    pieces,      \* chunker: the windows <<from, to>> yielded so far, in order
    spin,        \* chunker: TRUE once an outer-loop pass changed nothing
    error,       \* "none", or the exception that ended the run
    counters,    \* LinkedResults.counters
    emitted,     \* the paths LinkedResults has returned so far, in order
    results,     \* RankedResults.get: the kept records, best first
    max_results, \* RankedResults.max_results
    max_combinations, \* RankedResults.max_combinations
    phase,       \* position of the running operation
    prev,        \* the value of "counters" before the last increment_counter
    res,         \* address resolver: what get_addresses returned last
    idx,         \* address resolver: the index i of add_address_candidates
    keep_nodes,  \* address resolver: the keep_nodes argument
    made,        \* address resolver: each Address node made so far, with
                 \* the part of the lattice it was made from
    input,       \* the lattice handed to the first filter, or to
                 \* add_address_candidates
    applied,     \* filters: the number of filters applied so far
    args,        \* a single call: the arguments of the function called
    out          \* a single call: what the call returned

vars == <<lattice, pos_from, pos_to, pieces, spin, error, counters, emitted,
          results, max_results, max_combinations, phase, prev, res, idx,
          keep_nodes, made, input, applied, args, out>>

chunkVars == <<pos_from, pos_to, pieces, spin>>
linkVars == <<counters, emitted, results, prev>>
filterVars == <<input, applied>>
addrVars == <<res, idx, keep_nodes, made>>
callVars == <<args, out>>

----------------------------------------------------------------------------
(* Bounds of the model *)

\* longest lattice handed to the chunker
MaxLen == 3

----------------------------------------------------------------------------
(* Program constants *)

NORMAL == 0
GEOWORD == 1
ADDRESS == 2

MAX_COMBINATIONS == 256

\* count_combinations stops multiplying above this value
INT_LIMIT == 2147483647

----------------------------------------------------------------------------
(* Nodes.  A string is a sequence of characters.  "morphemes" is the       *)
(* morpheme dict of a Normal or Geoword node; "inner" is the morpheme list *)
(* of an Address node (the surfaces of its inner morphemes), empty for the *)
(* other nodes: isinstance(node.morphemes, list) is node.inner # << >>.    *)
(* "prop" is NoProp for Python's None.                                     *)

NoProp == [none |-> TRUE]
\* None for a geometry or a date; a value v is <<v>>
NoValue == << >>

WordPos == [pos |-> "meishi", subclass1 |-> "ippan", subclass2 |-> "*"]
KutenPos == [pos |-> "kigou", subclass1 |-> "kuten", subclass2 |-> "*"]
ToutenPos == [pos |-> "kigou", subclass1 |-> "touten", subclass2 |-> "*"]
NewlinePos == [pos |-> "kigou", subclass1 |-> "seigyo", subclass2 |-> "kaigyou"]
SymbolPos == [pos |-> "kigou", subclass1 |-> "ippan", subclass2 |-> "*"]
GeowordPos == [pos |-> "meishi", subclass1 |-> "koyuu", subclass2 |-> "chimeigo"]

\* the characters of the string the chunker's symbol test searches
SymbolString ==
    <<"fullslash", "/", "star", "bcircle", "wcircle", "dcircle",
      "bsquare", "wsquare", "diamond">>

Node(surface, node_type, morphemes, inner, geometry, prop) ==
    [surface |-> surface, node_type |-> node_type, morphemes |-> morphemes,
     inner |-> inner, geometry |-> geometry, prop |-> prop]

NormalNode(surface, morphemes) ==
    Node(surface, NORMAL, morphemes, << >>, NoValue, NoProp)

\* the properties of a gazetteer entry
GeoProp(id, body, ne_class, hypernym, valid_from, valid_to) ==
    [geolod_id |-> id, body |-> body, ne_class |-> ne_class,
     hypernym |-> hypernym, prefix |-> << >>, suffix |-> << >>,
     valid_from |-> valid_from, valid_to |-> valid_to]

\* a geoword candidate: geometry is <<x>>, a coordinate (km) on a line, or None
GeowordNode(surface, geometry, prop) ==
    Node(surface, GEOWORD, GeowordPos, << >>, geometry, prop)

\* an address candidate; prop is the address element of the geocoder
AddressNode(surface, inner, geometry) ==
    Node(surface, ADDRESS, WordPos, inner, geometry,
         [fullname |-> inner, level |-> Len(inner)])

\* dict.get(field, default)
PropGet(prop, field, default) ==
    IF field \in DOMAIN prop THEN prop[field] ELSE default

----------------------------------------------------------------------------
(* Helpers *)

Slice(l, a, b) == SubSeq(l, a + 1, b)

Min(S) == CHOOSE x \in S : \A y \in S : x <= y

Max(S) == CHOOSE x \in S : \A y \in S : x >= y

Range(f) == {f[k] : k \in DOMAIN f}

\* Python's  s in t  for strings
IsSubstring(s, t) ==
    \E i \in 1..(Len(t) + 1) :
        i + Len(s) - 1 <= Len(t) /\ SubSeq(t, i, i + Len(s) - 1) = s

\* k geoword candidates of one surface, with geolod_id 1..k
Repeat(surface, k) ==
    [i \in 1..k |->
        GeowordNode(surface, NoValue,
            GeoProp(i, surface, "station", {}, NoValue, NoValue))]

HasNonAddressNode(nodes) ==
    \E k \in 1..Len(nodes) : nodes[k].node_type # ADDRESS

----------------------------------------------------------------------------
(* linker.RankedResults.count_combinations *)

RECURSIVE CountFrom(_, _, _)
CountFrom(l, i, n) ==
    IF i > Len(l) THEN n
    ELSE IF Len(l[i]) # 0 /\ n > INT_LIMIT \div Len(l[i])
         \* n * len(i) > 2147483647: the loop breaks with that product, which
         \* callers only compare with thresholds below it
         THEN INT_LIMIT
         ELSE CountFrom(l, i + 1, n * Len(l[i]))

count_combinations(l) == CountFrom(l, 1, 1)

\* the guard raising at the bound already
RaisesAtBound(l, maxc) == count_combinations(l) >= maxc

\* RankedResults.get: the guard before enumeration
RaisesLinkerError(l, maxc) == count_combinations(l) > maxc

----------------------------------------------------------------------------
(* The chunker: get_processible_lattice_part.  One action is one pass of   *)
(* the outer while loop; a pass that yields also runs the consumer's loop  *)
(* body in geoparse (evaluator.get on the piece).                          *)

IsKuten(node) ==
    node.node_type # ADDRESS /\ node.morphemes.subclass1 = "kuten"

IsNewline(node) ==
    /\ node.node_type # ADDRESS
    /\ node.morphemes.pos = "kigou"
    /\ node.morphemes.subclass1 = "seigyo"
    /\ node.morphemes.subclass2 = "kaigyou"

IsSymbol(node) ==
    /\ node.node_type # ADDRESS
    /\ node.morphemes.pos = "kigou"
    /\ node.morphemes.subclass1 = "ippan"
    /\ IsSubstring(node.surface, SymbolString)

IsTouten(node) ==
    node.node_type # ADDRESS /\ node.morphemes.subclass1 = "touten"

\* range(pos_from, pos_to - 1)
SplitRange(a, b) == a..(b - 2)

\* the first i of the loop at which it breaks, or -1
FirstSplit(hits) == IF hits = {} THEN -1 ELSE Min(hits)

\* the width the halving loop steps over at a position
node_width(nodes) ==
    IF HasNonAddressNode(nodes)
       /\ \E k \in 1..Len(nodes) : nodes[k].inner # << >>
    THEN Len(nodes[Min({k \in 1..Len(nodes) : nodes[k].inner # << >>})].inner)
    ELSE 1

RECURSIVE HalveWorkflow(_, _, _, _)
\* workflow.py: while i < pos_to; the new pos_to (pos_to when the loop
\* falls through)
HalveWorkflow(l, a, b, i) ==
    IF i < b
    THEN IF i >= a + ((b - a) \div 2) THEN i
         ELSE HalveWorkflow(l, a, b, i + node_width(l[i + 1]))
    ELSE b

RECURSIVE HalveParser(_, _, _, _)
\* parser.py: while i < pos_to - 1
HalveParser(l, a, b, i) ==
    IF i < b - 1
    THEN IF i >= a + ((b - a) \div 2) THEN i
         ELSE HalveParser(l, a, b, i + node_width(l[i + 1]))
    ELSE b

Window == Slice(lattice, pos_from, pos_to)

\* the test that lets a window through
WorkflowAccepts ==
    pos_to - pos_from = 1 \/ count_combinations(Window) < MAX_COMBINATIONS

ParserAccepts == count_combinations(Window) < MAX_COMBINATIONS

Running == error = "none" /\ pos_from < Len(lattice)

\* yield lattice_part; the consumer hands it to the evaluator
YieldPiece ==
    /\ pieces' = Append(pieces, <<pos_from, pos_to>>)
    /\ error' = IF pos_to - pos_from >= 1
                   /\ RaisesLinkerError(Window, max_combinations)
                THEN "LinkerError" ELSE "none"
    /\ pos_from' = pos_to
    /\ pos_to' = Len(lattice)
    /\ spin' = FALSE

\* the split drops the punctuation mark instead of keeping it in the piece
SplitAtBeforeMark(i) ==
    /\ pos_to' = i
    /\ UNCHANGED <<pos_from, pieces, spin, error>>

SplitAt(i) ==
    /\ pos_to' = i + 1
    /\ UNCHANGED <<pos_from, pieces, spin, error>>

\* lattice[i][0]
First(i) == lattice[i + 1][1]

KutenAt ==
    FirstSplit({i \in SplitRange(pos_from, pos_to) : IsKuten(First(i))})
NewlineAt ==
    FirstSplit({i \in SplitRange(pos_from, pos_to) : IsNewline(First(i))})
SymbolAt ==
    FirstSplit({i \in SplitRange(pos_from, pos_to) : IsSymbol(First(i))})
ToutenAt ==
    FirstSplit({i \in SplitRange(pos_from, pos_to) : IsTouten(First(i))})

Frame ==
    UNCHANGED <<callVars, lattice, linkVars, filterVars, max_results, max_combinations,
                phase, addrVars>>

WorkflowYield == Running /\ WorkflowAccepts /\ YieldPiece /\ Frame

WorkflowSplitKuten ==
    Running /\ ~WorkflowAccepts /\ KutenAt # -1 /\ SplitAt(KutenAt) /\ Frame

WorkflowSplitNewline ==
    /\ Running /\ ~WorkflowAccepts /\ KutenAt = -1
    /\ NewlineAt # -1 /\ SplitAt(NewlineAt) /\ Frame

WorkflowSplitSymbol ==
    /\ Running /\ ~WorkflowAccepts /\ KutenAt = -1 /\ NewlineAt = -1
    /\ SymbolAt # -1 /\ SplitAt(SymbolAt) /\ Frame

WorkflowSplitTouten ==
    /\ Running /\ ~WorkflowAccepts /\ KutenAt = -1 /\ NewlineAt = -1
    /\ SymbolAt = -1 /\ ToutenAt # -1 /\ SplitAt(ToutenAt) /\ Frame

NoPunctuation ==
    KutenAt = -1 /\ NewlineAt = -1 /\ SymbolAt = -1 /\ ToutenAt = -1

WorkflowHalve ==
    /\ Running /\ ~WorkflowAccepts /\ NoPunctuation
    /\ pos_to' = HalveWorkflow(lattice, pos_from, pos_to, pos_from)
    /\ spin' = (pos_to' = pos_to)
    /\ UNCHANGED <<pos_from, pieces, error>>
    /\ Frame

ParserYield == Running /\ ParserAccepts /\ YieldPiece /\ Frame

ParserSplitKuten ==
    Running /\ ~ParserAccepts /\ KutenAt # -1 /\ SplitAt(KutenAt) /\ Frame

ParserSplitNewline ==
    /\ Running /\ ~ParserAccepts /\ KutenAt = -1
    /\ NewlineAt # -1 /\ SplitAt(NewlineAt) /\ Frame

ParserSplitSymbol ==
    /\ Running /\ ~ParserAccepts /\ KutenAt = -1 /\ NewlineAt = -1
    /\ SymbolAt # -1 /\ SplitAt(SymbolAt) /\ Frame

ParserSplitTouten ==
    /\ Running /\ ~ParserAccepts /\ KutenAt = -1 /\ NewlineAt = -1
    /\ SymbolAt = -1 /\ ToutenAt # -1 /\ SplitAt(ToutenAt) /\ Frame

ParserHalve ==
    /\ Running /\ ~ParserAccepts /\ NoPunctuation
    /\ pos_to' = HalveParser(lattice, pos_from, pos_to, pos_from)
    /\ spin' = (pos_to' = pos_to)
    /\ UNCHANGED <<pos_from, pieces, error>>
    /\ Frame

(* The lattices handed to the chunker: every position is one of these     *)
(* candidate lists.  A keep-mode Address (one that shares its position    *)
(* with other candidates) spans positions that exist.                     *)

WordCands == <<NormalNode(<<"w">>, WordPos)>>
KutenCands == <<NormalNode(<<"maru">>, KutenPos)>>
NewlineCands == <<NormalNode(<<"nl">>, NewlinePos)>>
SymbolCands == <<NormalNode(<<"/">>, SymbolPos)>>
ToutenCands == <<NormalNode(<<"ten">>, ToutenPos)>>
Geo16Cands == Repeat(<<"g">>, 16)
Geo257Cands == Repeat(<<"h">>, 257)
ReplacedAddressCands == <<AddressNode(<<"a", "b">>, <<(<<"a">>), (<<"b">>)>>, <<1>>)>>
KeptAddressCands ==
    Geo16Cands \o <<AddressNode(<<"g", "w">>, <<(<<"g">>), (<<"w">>)>>, <<1>>)>>

ChunkCands ==
    {WordCands, KutenCands, NewlineCands, SymbolCands, ToutenCands,
     Geo16Cands, Geo257Cands, ReplacedAddressCands, KeptAddressCands}

SpansFit(l) ==
    \A p \in 1..Len(l) : \A k \in 1..Len(l[p]) :
        (l[p][k].node_type = ADDRESS /\ HasNonAddressNode(l[p]))
            => p - 1 + Len(l[p][k].inner) <= Len(l)

ChunkLattices ==
    {l \in UNION {[1..n -> ChunkCands] : n \in 1..MaxLen} : SpansFit(l)}

ChunkInit ==
    /\ lattice \in ChunkLattices
    /\ pos_from = 0
    /\ pos_to = Len(lattice)
    /\ pieces = << >>
    /\ spin = FALSE
    /\ error = "none"
    /\ counters = << >>
    /\ emitted = << >>
    /\ results = << >>
    /\ prev = << >>
    /\ max_results = 1
    /\ max_combinations = MAX_COMBINATIONS
    /\ phase = "chunk"
    /\ res = NoProp
    /\ idx = 0
    /\ keep_nodes = FALSE
    /\ made = << >>
    /\ args = NoProp
    /\ out = NoProp
    /\ input = << >>
    /\ applied = 0

WorkflowNext ==
    \/ WorkflowYield
    \/ WorkflowSplitKuten
    \/ WorkflowSplitNewline
    \/ WorkflowSplitSymbol
    \/ WorkflowSplitTouten
    \/ WorkflowHalve

ParserNext ==
    \/ ParserYield
    \/ ParserSplitKuten
    \/ ParserSplitNewline
    \/ ParserSplitSymbol
    \/ ParserSplitTouten
    \/ ParserHalve

\* Workflow.get_processible_lattice_part driven by Workflow.geoparse
SpecWorkflowChunk == ChunkInit /\ [][WorkflowNext]_vars

\* Parser.get_processible_lattice_part driven by Parser.geoparse
SpecParserChunk == ChunkInit /\ [][ParserNext]_vars

----------------------------------------------------------------------------
(* scoring.ScoringClass (the default scorer) and the Node methods it uses *)

\* Node.get_notations
get_notations(node) ==
    IF node.node_type # GEOWORD
    THEN {<<node.surface[k]>> : k \in 1..Len(node.surface)}
    ELSE LET body == node.prop.body
             prefixes == PropGet(node.prop, "prefix", << >>)
             suffixes == PropGet(node.prop, "suffix", << >>)
         IN {body}
            \cup {prefixes[i] \o body : i \in 1..Len(prefixes)}
            \cup {body \o suffixes[j] : j \in 1..Len(suffixes)}
            \cup {prefixes[i] \o body \o suffixes[j] :
                    i \in 1..Len(prefixes), j \in 1..Len(suffixes)}

\* Node.distance, in metres: the coordinates are kilometres on a line
distance(node0, node1) ==
    LET d == node0.geometry[1] - node1.geometry[1]
    IN 1000 * (IF d < 0 THEN -d ELSE d)

\* node_relation_score taking a point off for nodes 10 km or more apart
node_relation_scoreFarPenalty(node0, node1) ==
    IF node0.node_type = NORMAL \/ node1.node_type = NORMAL THEN 0
    ELSE
    LET same_class ==
            IF node0.node_type = GEOWORD /\ node1.node_type = GEOWORD
               /\ node0.prop.ne_class = node1.prop.ne_class
            THEN 10 ELSE 0
        hypernym_node0 ==
            IF node0.node_type = GEOWORD
            THEN PropGet(node0.prop, "hypernym", {}) ELSE {}
        hypernym_node1 ==
            IF node1.node_type = GEOWORD
            THEN PropGet(node1.prop, "hypernym", {}) ELSE {}
        child0 ==
            IF hypernym_node0 \cap get_notations(node1) # {} THEN 5 ELSE 0
        child1 ==
            IF hypernym_node1 \cap get_notations(node0) # {} THEN 5 ELSE 0
        sibling ==
            IF hypernym_node0 \cap hypernym_node1 # {} THEN 5 ELSE 0
        dist == distance(node0, node1)
        near == IF dist < 10000 THEN 5 ELSE (50000 \div dist) - 1
    IN same_class + child0 + child1 + sibling + near

\* ScoringClass.node_relation_score
node_relation_score(node0, node1) ==
    IF node0.node_type = NORMAL \/ node1.node_type = NORMAL THEN 0
    ELSE
    LET same_class ==
            IF node0.node_type = GEOWORD /\ node1.node_type = GEOWORD
               /\ node0.prop.ne_class = node1.prop.ne_class
            THEN 10 ELSE 0
        hypernym_node0 ==
            IF node0.node_type = GEOWORD
            THEN PropGet(node0.prop, "hypernym", {}) ELSE {}
        hypernym_node1 ==
            IF node1.node_type = GEOWORD
            THEN PropGet(node1.prop, "hypernym", {}) ELSE {}
        child0 ==
            IF hypernym_node0 \cap get_notations(node1) # {} THEN 5 ELSE 0
        child1 ==
            IF hypernym_node1 \cap get_notations(node0) # {} THEN 5 ELSE 0
        sibling ==
            IF hypernym_node0 \cap hypernym_node1 # {} THEN 5 ELSE 0
        dist == distance(node0, node1)
        near == IF dist < 10000 THEN 5 ELSE 50000 \div dist
    IN same_class + child0 + child1 + sibling + near

\* the look-ahead of path_score when scoring_options is not given
DEFAULT_NLOOKUP == 5

RECURSIVE SumOver(_, _)
SumOver(f, S) ==
    IF S = {} THEN 0
    ELSE LET x == CHOOSE y \in S : TRUE IN f[x] + SumOver(f, S \ {x})

\* ScoringClass.path_score with the default options
path_score(path) ==
    LET geowords == {k \in 1..Len(path) : path[k].node_type = GEOWORD}
        addresses == {k \in 1..Len(path) : path[k].node_type = ADDRESS}
        classes == {path[k].prop.ne_class : k \in geowords}
        freq == [c \in classes |->
                    Cardinality({k \in geowords : path[k].prop.ne_class = c})]
        base == Len(path) - Cardinality(geowords) - Cardinality(addresses)
        address_bonus ==
            SumOver([k \in addresses |-> 10 * Len(path[k].inner)], addresses)
        class_bonus ==
            SumOver([c \in classes |-> IF freq[c] > 1 THEN freq[c] * 10 ELSE 0],
                    classes)
        \* for i1 in range(i0 + 1, len(path)): the score and what is left
        \* of nlookup, which the loops share
        InnerLoop[i0 \in Nat, i1 \in Nat, nlookup \in Int, score \in Int] ==
            IF i1 > Len(path) THEN [nlookup |-> nlookup, score |-> score]
            ELSE IF path[i1].node_type = NORMAL
                 THEN InnerLoop[i0, i1 + 1, nlookup, score]
                 ELSE IF nlookup - 1 <= 0
                      THEN [nlookup |-> nlookup - 1,
                            score |-> score
                                + node_relation_score(path[i0], path[i1])]
                      ELSE InnerLoop[i0, i1 + 1, nlookup - 1,
                                     score + node_relation_score(path[i0],
                                                                 path[i1])]
        \* for i0 in range(len(path))
        OuterLoop[i0 \in Nat, acc \in [nlookup : Int, score : Int]] ==
            IF i0 > Len(path) THEN acc.score
            ELSE IF path[i0].node_type = NORMAL
                 THEN OuterLoop[i0 + 1, acc]
                 ELSE OuterLoop[i0 + 1,
                                InnerLoop[i0, i0 + 1, acc.nlookup, acc.score]]
    IN OuterLoop[1, [nlookup |-> DEFAULT_NLOOKUP,
                     score |-> base + address_bonus + class_bonus]]

----------------------------------------------------------------------------
(* linker.LinkedResults.  counters[p + 1] is Python's counters[p].        *)

\* LinkedResults.reset_counter
reset_counter(l) == [p \in 1..Len(l) |-> 0]

RECURSIVE ResultFrom(_, _, _)
\* the loop of get_result from position n (0-based)
ResultFrom(l, c, n) ==
    IF n >= Len(l) THEN << >>
    ELSE LET node == l[n + 1][c[n + 1] + 1]
             step == IF node.inner # << >> /\ HasNonAddressNode(l[n + 1])
                     THEN Len(node.inner) ELSE 1
         IN <<node>> \o ResultFrom(l, c, n + step)

\* LinkedResults.get_result: none is TRUE for None
get_result(l, c) ==
    IF c[1] = -1 THEN [none |-> TRUE, path |-> << >>]
    ELSE [none |-> FALSE, path |-> ResultFrom(l, c, 0)]

RECURSIVE PositionsFrom(_, _, _)
\* increment_counter: the positions whose selected node is a geoword or an
\* address, the span of a selected keep-mode address skipped
PositionsFrom(l, c, pos) ==
    IF pos >= Len(l) THEN << >>
    ELSE LET node == l[pos + 1][c[pos + 1] + 1]
             next_pos ==
                 IF node.node_type = ADDRESS /\ HasNonAddressNode(l[pos + 1])
                 THEN pos + Len(node.inner) ELSE pos + 1
         IN (IF node.node_type \in {ADDRESS, GEOWORD} THEN <<pos>> ELSE << >>)
            \o PositionsFrom(l, c, next_pos)

RECURSIVE IncrementLastNoEnd(_, _, _)
\* increment_counter without the final counters[0] = -1
IncrementLastNoEnd(l, c, positions) ==
    IF positions = << >> THEN c
    ELSE LET pos == positions[Len(positions)]
             i == c[pos + 1] + 1
         IN IF i < Len(l[pos + 1])
            THEN [c EXCEPT ![pos + 1] = i]
            ELSE IncrementLastNoEnd(l, [c EXCEPT ![pos + 1] = 0],
                                    SubSeq(positions, 1, Len(positions) - 1))

RECURSIVE IncrementLast(_, _, _)
\* increment_counter: while len(positions) > 0
IncrementLast(l, c, positions) ==
    IF positions = << >> THEN [c EXCEPT ![1] = -1]
    ELSE LET pos == positions[Len(positions)]
             i == c[pos + 1] + 1
         IN IF i < Len(l[pos + 1])
            THEN [c EXCEPT ![pos + 1] = i]
            ELSE IncrementLast(l, [c EXCEPT ![pos + 1] = 0],
                               SubSeq(positions, 1, Len(positions) - 1))

\* LinkedResults.increment_counter
increment_counter(l, c) == IncrementLast(l, c, PositionsFrom(l, c, 0))

----------------------------------------------------------------------------
(* linker.RankedResults.get.  A record of "results" also carries "seq",   *)
(* the number of the path in the enumerator's order.                       *)

RECURSIVE InsertAtAscending(_, _, _)
\* the comparison of the insertion loop turned round
InsertAtAscending(rs, score, n) ==
    IF n = 0 THEN 0
    ELSE IF rs[n].score < score THEN n
         ELSE InsertAtAscending(rs, score, n - 1)

RECURSIVE InsertAt(_, _, _)
\* while n > 0: the index at which the new record is inserted
InsertAt(rs, score, n) ==
    IF n = 0 THEN 0
    ELSE IF rs[n].score > score THEN n
         ELSE InsertAt(rs, score, n - 1)

\* list.insert(n, record)
ListInsert(rs, n, rec) ==
    SubSeq(rs, 1, n) \o <<rec>> \o SubSeq(rs, n + 1, Len(rs))

\* the body of the loop over the paths: keep at most maxr records
KeepRecord(rs, rec, maxr) ==
    IF Len(rs) = 0 THEN <<rec>>
    ELSE LET all == ListInsert(rs, InsertAt(rs, rec.score, Len(rs)), rec)
         IN SubSeq(all, 1, IF maxr < Len(all) THEN maxr ELSE Len(all))

RankFrame ==
    UNCHANGED <<callVars, lattice, chunkVars, filterVars, max_results, max_combinations,
                addrVars>>

\* RankedResults.get up to the loop: the guard, then LinkedResults(lattice)
RankStart ==
    /\ phase = "start"
    /\ IF RaisesLinkerError(lattice, max_combinations)
       THEN /\ error' = "LinkerError"
            /\ phase' = "raised"
            /\ UNCHANGED counters
       ELSE /\ counters' = reset_counter(lattice)
            /\ phase' = "iter"
            /\ UNCHANGED error
    /\ UNCHANGED <<emitted, results, prev>>
    /\ RankFrame

\* one pass of "for path in lr": __next__ (get_result, increment_counter),
\* path_score and the insertion
RankStep ==
    /\ phase = "iter"
    /\ ~get_result(lattice, counters).none
    /\ \E path \in {get_result(lattice, counters).path} :
       \E rec \in {[score |-> path_score(path), result |-> path,
                    seq |-> Len(emitted) + 1]} :
          /\ emitted' = Append(emitted, counters)
          /\ results' = KeepRecord(results, rec, max_results)
    /\ prev' = counters
    /\ counters' = increment_counter(lattice, counters)
    /\ UNCHANGED <<phase, error>>
    /\ RankFrame

\* __next__ raises StopIteration: the loop ends and get returns results
RankEnd ==
    /\ phase = "iter"
    /\ get_result(lattice, counters).none
    /\ phase' = "returned"
    /\ UNCHANGED <<counters, emitted, results, prev, error>>
    /\ RankFrame

\* a further __next__ on the exhausted iterator raises StopIteration again
NextExhausted ==
    /\ phase = "returned"
    /\ get_result(lattice, counters).none
    /\ UNCHANGED vars

(* The lattices handed to the evaluator *)

StationA1 ==
    GeowordNode(<<"a">>, <<0>>,
        GeoProp(1, <<"a">>, "station", {<<"r">>}, NoValue, NoValue))
StationA2 ==
    GeowordNode(<<"a">>, <<0>>,
        GeoProp(2, <<"a">>, "station", {<<"r">>}, NoValue, NoValue))
CityB1 ==
    GeowordNode(<<"b">>, <<40>>,
        GeoProp(3, <<"b">>, "city", {<<"a">>}, NoValue, NoValue))
StationB2 ==
    GeowordNode(<<"b">>, <<3>>,
        GeoProp(4, <<"b">>, "station", {<<"r">>}, NoValue, NoValue))
StationC1 ==
    GeowordNode(<<"c">>, <<8>>,
        GeoProp(5, <<"c">>, "station", {<<"q">>}, NoValue, NoValue))

LinkCands ==
    {WordCands,
     <<StationA1, StationA2>>,
     <<CityB1, StationB2>>,
     <<NormalNode(<<"c">>, WordPos), StationC1>>,
     <<AddressNode(<<"a", "b">>, <<(<<"a">>), (<<"b">>)>>, <<1>>),
       AddressNode(<<"a", "b">>, <<(<<"a">>), (<<"b">>)>>, <<90>>)>>,
     <<StationB2, AddressNode(<<"b", "w">>, <<(<<"b">>), (<<"w">>)>>, <<2>>)>>}

\* longest lattice handed to the evaluator
MaxLinkLen == 3

\* largest max_results
MaxResults == 2

\* a max_combinations below the default
LowMaxCombinations == 4

LinkLattices ==
    {l \in UNION {[1..n -> LinkCands] : n \in 1..MaxLinkLen} : SpansFit(l)}

RankInit ==
    /\ lattice \in LinkLattices
    /\ max_results \in 1..MaxResults
    /\ max_combinations \in {LowMaxCombinations, MAX_COMBINATIONS}
    /\ phase = "start"
    /\ error = "none"
    /\ counters = << >>
    /\ prev = << >>
    /\ emitted = << >>
    /\ results = << >>
    /\ pos_from = 0
    /\ pos_to = 0
    /\ pieces = << >>
    /\ spin = FALSE
    /\ res = NoProp
    /\ idx = 0
    /\ keep_nodes = FALSE
    /\ made = << >>
    /\ args = NoProp
    /\ out = NoProp
    /\ input = << >>
    /\ applied = 0

RankNext == RankStart \/ RankStep \/ RankEnd \/ NextExhausted

\* RankedResults.get on one lattice
SpecRank == RankInit /\ [][RankNext]_vars

\* the longest lattice whose whole iteration is followed to its end
MaxFairLen == 3

\* ambiguous positions, one of them with a Normal candidate
FairCands ==
    {<<StationA1, StationA2>>, <<NormalNode(<<"c">>, WordPos), StationC1>>}

FairLattices ==
    UNION {[1..n -> FairCands] : n \in 1..MaxFairLen}

RankFairInit ==
    /\ lattice \in FairLattices
    /\ max_results \in 1..MaxResults
    /\ max_combinations \in {LowMaxCombinations, MAX_COMBINATIONS}
    /\ phase = "start"
    /\ error = "none"
    /\ counters = << >>
    /\ prev = << >>
    /\ emitted = << >>
    /\ results = << >>
    /\ pos_from = 0
    /\ pos_to = 0
    /\ pieces = << >>
    /\ spin = FALSE
    /\ res = NoProp
    /\ idx = 0
    /\ keep_nodes = FALSE
    /\ made = << >>
    /\ args = NoProp
    /\ out = NoProp
    /\ input = << >>
    /\ applied = 0

\* the for loop of RankedResults.get keeps calling __next__
SpecRankFair == RankFairInit /\ [][RankNext]_vars /\ WF_vars(RankNext)

----------------------------------------------------------------------------
(* filter.py, spatial_filter.py, temporal_filter.py.  A filter object is a *)
(* record: its class ("kind") and what __init__ stored.  A date string is  *)
(* <<d>>, d a day number, NoValue for None or ''; a string that is not a   *)
(* date is <<d>> with d < 0.  A region is an interval <<lo, hi>> of the    *)
(* line the coordinates lie on.                                            *)

TimeKinds ==
    {"TimeExists", "TimeBefore", "TimeAfter", "TimeOverlaps", "TimeCovers",
     "TimeContains"}

\* EntityClassFilter.__init__: the pattern is the set of the class names
\* re_ne_class.match accepts
EntityClassFilter(ne_class) == [kind |-> "EntityClass", re_ne_class |-> ne_class]

\* SpatialFilter.__init__
SpatialFilter(kind, geo) == [kind |-> kind, geo |-> geo]

\* TemporalFilter.get_date_from_isostr raises FilterError
IsMalformed(datestr) == datestr # NoValue /\ datestr[1] < 0

\* TemporalFilter.get_date_from_isostr: None for None or '', else the date
get_date_from_isostr(datestr) ==
    IF datestr = NoValue THEN NoValue ELSE <<datestr[1]>>

\* the two dates in the order they were given
get_duration_from_datesAsGiven(datestr0, datestr1) ==
    LET date0 == get_date_from_isostr(datestr0)[1]
        date1 == IF datestr1 = NoValue THEN date0
                 ELSE get_date_from_isostr(datestr1)[1]
    IN <<date0, date1>>

\* TemporalFilter.get_duration_from_dates
get_duration_from_dates(datestr0, datestr1) ==
    LET date0 == get_date_from_isostr(datestr0)[1]
        date1 == IF datestr1 = NoValue THEN date0
                 ELSE get_date_from_isostr(datestr1)[1]
    IN IF date0 > date1 THEN <<date1, date0>> ELSE <<date0, date1>>

\* TemporalFilter.__init__
TemporalFilter(kind, date_from, date_to) ==
    [kind |-> kind, duration |-> get_duration_from_dates(date_from, date_to)]

\* GreedySearchFilter.__init__ with the default scorer
GreedySearchFilter == [kind |-> "GreedySearch"]

\* self.when_all_failed as the constructors leave it
when_all_failed(f) ==
    IF f.kind = "GreedySearch" THEN "return_all" ELSE "convert_to_normal"

\* TemporalFilter.duration_from_candidate
duration_from_candidate(candidate) ==
    IF candidate.prop = NoProp THEN [none |-> TRUE]
    ELSE [none |-> FALSE,
          span |-> <<get_date_from_isostr(
                         PropGet(candidate.prop, "valid_from", NoValue)),
                     get_date_from_isostr(
                         PropGet(candidate.prop, "valid_to", NoValue))>>]

\* duration_from_candidate raises FilterError
CandidateRaises(candidate) ==
    /\ candidate.prop # NoProp
    /\ \/ IsMalformed(PropGet(candidate.prop, "valid_from", NoValue))
       \/ IsMalformed(PropGet(candidate.prop, "valid_to", NoValue))

\* the temporal filters, TimeContains leaving out the ends of the duration
TimeFilterFuncOpenEnds(kind, span, duration) ==
    LET from_gt(d) == span[1] # NoValue /\ span[1][1] > d
        to_lt(d) == span[2] # NoValue /\ span[2][1] < d
    IN CASE kind \in {"TimeExists", "TimeOverlaps"} ->
                ~from_gt(duration[2]) /\ ~to_lt(duration[1])
         [] kind = "TimeBefore" -> ~from_gt(duration[1])
         [] kind = "TimeAfter" -> ~to_lt(duration[2])
         [] kind = "TimeCovers" ->
                ~from_gt(duration[1]) /\ ~to_lt(duration[2])
         [] kind = "TimeContains" ->
                /\ span[1] # NoValue /\ span[1][1] > duration[1]
                /\ span[2] # NoValue /\ span[2][1] < duration[2]

\* filter_func of the temporal filters, span not None
TimeFilterFunc(kind, span, duration) ==
    LET from_gt(d) == span[1] # NoValue /\ span[1][1] > d
        to_lt(d) == span[2] # NoValue /\ span[2][1] < d
    IN CASE kind \in {"TimeExists", "TimeOverlaps"} ->
                ~from_gt(duration[2]) /\ ~to_lt(duration[1])
         [] kind = "TimeBefore" -> ~from_gt(duration[1])
         [] kind = "TimeAfter" -> ~to_lt(duration[2])
         [] kind = "TimeCovers" ->
                ~from_gt(duration[1]) /\ ~to_lt(duration[2])
         [] kind = "TimeContains" ->
                /\ span[1] # NoValue /\ span[1][1] >= duration[1]
                /\ span[2] # NoValue /\ span[2][1] <= duration[2]

\* filter_func of each filter class
filter_func(f, candidate) ==
    CASE f.kind = "EntityClass" ->
            /\ candidate.prop # NoProp
            /\ "ne_class" \in DOMAIN candidate.prop
            /\ candidate.prop.ne_class \in f.re_ne_class
      [] f.kind = "GeoContains" ->
            \/ candidate.geometry = NoValue
            \/ /\ f.geo[1] <= candidate.geometry[1]
               /\ candidate.geometry[1] <= f.geo[2]
      [] f.kind = "GeoDisjoint" ->
            \/ candidate.geometry = NoValue
            \/ candidate.geometry[1] < f.geo[1]
            \/ candidate.geometry[1] > f.geo[2]
      [] f.kind \in TimeKinds ->
            \/ duration_from_candidate(candidate).none
            \/ TimeFilterFunc(f.kind, duration_from_candidate(candidate).span,
                              f.duration)

\* Filter.apply_filter with default=None: the candidates that pass, in order
apply_filter(f, candidates) ==
    SelectSeq(candidates, LAMBDA candidate : filter_func(f, candidate))

\* Filter.apply, when_all_failed == 'convert_to_normal'
convert_to_normal(candidates) ==
    LET normals == {k \in 1..Len(candidates) :
                        candidates[k].node_type = NORMAL}
    IN IF normals # {} THEN <<candidates[Min(normals)]>>
       ELSE <<[candidates[1] EXCEPT
                 !.node_type = NORMAL,
                 !.morphemes = [@ EXCEPT !.pos = "meishi",
                                         !.subclass1 = "koyuu",
                                         !.subclass2 = "chiiki"],
                 !.geometry = NoValue,
                 !.prop = NoProp]>>

\* Filter.apply without the handling of a position that lost every candidate
FilterApplyNoFallback(f, l) ==
    [i \in 1..Len(l) |-> apply_filter(f, l[i])]

\* Filter.apply
FilterApply(f, l) ==
    [i \in 1..Len(l) |->
        IF Len(apply_filter(f, l[i])) > 0 THEN apply_filter(f, l[i])
        ELSE IF when_all_failed(f) = "return_all" THEN l[i]
        ELSE convert_to_normal(l[i])]

RECURSIVE PileFrom(_, _)
\* GreedySearchFilter.apply: geowords_pile from position n on, as
\* <<n, geowords>> entries
PileFrom(l, n) ==
    IF n >= Len(l) THEN << >>
    ELSE LET nodes == l[n + 1]
             addresses == {k \in 1..Len(nodes) : nodes[k].node_type = ADDRESS}
             geowords == SelectSeq(nodes, LAMBDA x : x.node_type = GEOWORD)
         IN IF addresses # {}
            THEN PileFrom(l, n + Len(nodes[Min(addresses)].inner))
            ELSE (IF Len(geowords) > 0 THEN <<(<<n, geowords>>)>> ELSE << >>)
                 \o PileFrom(l, n + 1)

RECURSIVE BestFrom(_, _, _, _, _)
\* GreedySearchFilter._get_best: for score in scores
BestFrom(nodes, scores, k, best, max_score) ==
    IF k > Len(nodes) THEN best
    ELSE IF scores[k] > max_score
         THEN BestFrom(nodes, scores, k + 1, <<nodes[k]>>, scores[k])
         ELSE IF scores[k] = max_score
              THEN BestFrom(nodes, scores, k + 1, Append(best, nodes[k]),
                            max_score)
              ELSE BestFrom(nodes, scores, k + 1, best, max_score)

\* GreedySearchFilter._get_best
get_best(nodes, hint_geowords) ==
    LET scores ==
            [i0 \in 1..Len(nodes) |->
                SumOver([i1 \in 1..Len(hint_geowords) |->
                            node_relation_score(nodes[i0], hint_geowords[i1])],
                        1..Len(hint_geowords))]
    IN BestFrom(nodes, scores, 1, << >>, 0)

\* the loop looking at the nearest hints only
GreedyLoopNearest(nodes, pile, pile_index, dt, best_nodes) ==
    IF dt >= Len(pile) THEN best_nodes
    ELSE LET k0 == pile_index - dt
             best0 == IF k0 >= 0 THEN get_best(nodes, pile[k0 + 1][2])
                      ELSE best_nodes
             k1 == pile_index + dt
             best1 == IF k1 < Len(pile) THEN get_best(nodes, pile[k1 + 1][2])
                      ELSE best0
         IN IF k0 >= 0 /\ Len(best0) = 1 THEN best0
            ELSE best1

RECURSIVE GreedyLoop(_, _, _, _, _)
\* GreedySearchFilter.apply: while dt < len(geowords_pile)
GreedyLoop(nodes, pile, pile_index, dt, best_nodes) ==
    IF dt >= Len(pile) THEN best_nodes
    ELSE LET k0 == pile_index - dt
             best0 == IF k0 >= 0 THEN get_best(nodes, pile[k0 + 1][2])
                      ELSE best_nodes
             k1 == pile_index + dt
             best1 == IF k1 < Len(pile) THEN get_best(nodes, pile[k1 + 1][2])
                      ELSE best0
         IN IF k0 >= 0 /\ Len(best0) = 1 THEN best0
            ELSE IF k1 < Len(pile) /\ Len(best1) = 1 THEN best1
            ELSE GreedyLoop(nodes, pile, pile_index, dt + 1, best1)

RECURSIVE GreedyOutput(_, _, _, _)
\* GreedySearchFilter.apply: for i in range(len(input))
GreedyOutput(l, pile, i, pile_index) ==
    IF i >= Len(l) THEN << >>
    ELSE IF pile_index = Len(pile) \/ i < pile[pile_index + 1][1]
         THEN <<l[i + 1]>> \o GreedyOutput(l, pile, i + 1, pile_index)
         ELSE IF Len(l[i + 1]) = 1
              THEN <<l[i + 1]>>
                   \o GreedyOutput(l, pile, i + 1, pile_index + 1)
              ELSE <<GreedyLoop(l[i + 1], pile, pile_index, 1, l[i + 1])>>
                   \o GreedyOutput(l, pile, i + 1, pile_index + 1)

\* GreedySearchFilter.apply
GreedyApply(l) == GreedyOutput(l, PileFrom(l, 0), 0, 0)

\* a temporal filter meets a candidate whose dates do not parse
FilterRaises(f, l) ==
    /\ f.kind \in TimeKinds
    /\ \E i \in 1..Len(l) : \E k \in 1..Len(l[i]) : CandidateRaises(l[i][k])

\* longest lattice handed to the filters
MaxFilterLen == 2

\* most filters applied one after the other
MaxFilters == 3

FilterFrame ==
    UNCHANGED <<callVars, chunkVars, linkVars, input, max_results, max_combinations,
                phase, addrVars>>

\* filter.apply(lattice), the result handed to the next filter
ApplyFilter(f) ==
    /\ phase = "filter"
    /\ error = "none"
    /\ applied < MaxFilters
    /\ IF FilterRaises(f, lattice)
       THEN /\ error' = "FilterError"
            /\ UNCHANGED <<lattice, applied>>
       ELSE /\ lattice' = (IF f.kind = "GreedySearch" THEN GreedyApply(lattice)
                           ELSE FilterApply(f, lattice))
            /\ applied' = applied + 1
            /\ UNCHANGED error
    /\ FilterFrame

\* the patterns, regions and dates the filters are built with
FilterClasses == {{"station"}, {"city", "town"}, {}}
FilterRegions == {<<0, 10>>, <<30, 50>>}
FilterDatesFrom == {<<1>>, <<4>>}
FilterDatesTo == {NoValue, <<2>>, <<7>>}

ApplyEntityClass ==
    /\ phase = "filter"
    /\ \E ne_class \in FilterClasses : ApplyFilter(EntityClassFilter(ne_class))

ApplyGeoContains ==
    /\ phase = "filter"
    /\ \E geo \in FilterRegions : ApplyFilter(SpatialFilter("GeoContains", geo))

ApplyGeoDisjoint ==
    /\ phase = "filter"
    /\ \E geo \in FilterRegions : ApplyFilter(SpatialFilter("GeoDisjoint", geo))

\* the temporal filters differ in filter_func only
ApplyTime(kind) ==
    \E date_from \in FilterDatesFrom, date_to \in FilterDatesTo :
        ApplyFilter(TemporalFilter(kind, date_from, date_to))

ApplyTimeExists == phase = "filter" /\ ApplyTime("TimeExists")

ApplyTimeBefore == phase = "filter" /\ ApplyTime("TimeBefore")

ApplyTimeAfter == phase = "filter" /\ ApplyTime("TimeAfter")

ApplyTimeOverlaps == phase = "filter" /\ ApplyTime("TimeOverlaps")

ApplyTimeCovers == phase = "filter" /\ ApplyTime("TimeCovers")

ApplyTimeContains == phase = "filter" /\ ApplyTime("TimeContains")

ApplyGreedySearch == phase = "filter" /\ ApplyFilter(GreedySearchFilter)

\* gazetteer entries with a period of validity
OldStation ==
    GeowordNode(<<"a">>, <<0>>,
        GeoProp(6, <<"a">>, "station", {<<"r">>}, NoValue, <<3>>))
NewCity ==
    GeowordNode(<<"a">>, <<40>>,
        GeoProp(7, <<"a">>, "city", {<<"q">>}, <<5>>, NoValue))
MidStation ==
    GeowordNode(<<"c">>, <<8>>,
        GeoProp(8, <<"c">>, "station", {<<"q">>}, <<2>>, <<6>>))
\* an entry whose valid_from is not a date
UndatedTown ==
    GeowordNode(<<"d">>, <<9>>,
        GeoProp(9, <<"d">>, "town", {}, <<-1>>, NoValue))

\* the candidate lists of Parser.analyze_sentence: Normal and Geoword nodes
FilterCands ==
    {WordCands,
     <<OldStation, NewCity>>,
     <<NormalNode(<<"c">>, WordPos), MidStation>>,
     <<StationA1, StationA2, CityB1>>,
     <<MidStation>>,
     <<UndatedTown>>}

FilterLattices == UNION {[1..n -> FilterCands] : n \in 1..MaxFilterLen}

FilterInit ==
    /\ lattice \in FilterLattices
    /\ input = lattice
    /\ applied = 0
    /\ phase = "filter"
    /\ error = "none"
    /\ max_results = 1
    /\ max_combinations = MAX_COMBINATIONS
    /\ counters = << >>
    /\ prev = << >>
    /\ emitted = << >>
    /\ results = << >>
    /\ pos_from = 0
    /\ pos_to = 0
    /\ pieces = << >>
    /\ spin = FALSE
    /\ res = NoProp
    /\ idx = 0
    /\ keep_nodes = FALSE
    /\ made = << >>
    /\ args = NoProp
    /\ out = NoProp

FilterNext ==
    \/ ApplyEntityClass
    \/ ApplyGeoContains
    \/ ApplyGeoDisjoint
    \/ ApplyTimeExists
    \/ ApplyTimeBefore
    \/ ApplyTimeAfter
    \/ ApplyTimeOverlaps
    \/ ApplyTimeCovers
    \/ ApplyTimeContains
    \/ ApplyGreedySearch

\* a chain of filters applied to the lattice of Parser.analyze_sentence
SpecFilter == FilterInit /\ [][FilterNext]_vars

----------------------------------------------------------------------------
(* Parser.add_address_candidates and Parser.get_addresses.  One action is  *)
(* one pass of the while loop of add_address_candidates.  The geocoder     *)
(* (jageocoder) is outside the repository: search answers with no result   *)
(* or with address elements that match a leading part of the query.        *)

\* get_addresses takes an address to be at most this many characters long
ADDRESS_QUERY_LIMIT == 50

\* the class names the default Parser.address_regex matches
AddressClasses == {"city", "town"}

\* add_address_candidates: can_be_address
can_be_address(nodes) ==
    \E k \in 1..Len(nodes) :
        /\ nodes[k].node_type = GEOWORD
        /\ PropGet(nodes[k].prop, "ne_class", "") \in AddressClasses

RECURSIVE QueryFrom(_, _, _)
\* get_addresses, first loop: the surface handed to the geocoder
QueryFrom(l, i, surface) ==
    IF i >= Len(l) THEN surface
    ELSE IF Len(surface \o l[i + 1][1].surface) > ADDRESS_QUERY_LIMIT
         THEN surface \o l[i + 1][1].surface
         ELSE QueryFrom(l, i + 1, surface \o l[i + 1][1].surface)

RECURSIVE AlignFrom(_, _, _, _)
\* get_addresses, second loop: the index i at which it ends
AlignFrom(l, i, surface, matched) ==
    IF i >= Len(l) THEN i
    ELSE IF Len(surface \o l[i + 1][1].surface) > Len(matched) THEN i
    ELSE IF Len(surface \o l[i + 1][1].surface) = Len(matched) THEN i + 1
    ELSE AlignFrom(l, i + 1, surface \o l[i + 1][1].surface, matched)

\* Parser.get_addresses, geocoding_result being what search returned: a
\* list of <<address element, matched string>>; address << >> is None
get_addresses(l, pos, geocoding_result) ==
    IF Len(geocoding_result) < 1
    THEN [surface |-> NoValue, address |-> << >>, pos |-> pos]
    ELSE LET i == AlignFrom(l, pos, << >>, geocoding_result[1][2])
         IN IF i - pos = 1
            THEN [surface |-> NoValue, address |-> << >>, pos |-> pos]
            ELSE [surface |-> geocoding_result[1][2],
                  address |-> [k \in 1..Len(geocoding_result) |->
                                  geocoding_result[k][1]],
                  pos |-> i]

\* jageocoder_tree.search(query): nothing, or one or two address elements
\* for a leading part of the query
GeocoderResults(query) ==
    {<< >>}
    \cup {<<(<<[fullname |-> <<SubSeq(query, 1, n)>>, level |-> 1, x |-> 1],
              SubSeq(query, 1, n)>>)>> : n \in 1..Len(query)}
    \cup {<<(<<[fullname |-> <<SubSeq(query, 1, n)>>, level |-> 1, x |-> 1],
              SubSeq(query, 1, n)>>),
            (<<[fullname |-> <<SubSeq(query, 1, n)>>, level |-> 1, x |-> 90],
              SubSeq(query, 1, n)>>)>> : n \in 1..Len(query)}

\* _get_address_morphemes: the parent node the binding starts from
ParentNode(address_element) ==
    Node(<< >>, ADDRESS,
         [pos |-> "meishi", subclass1 |-> "koyuu", subclass2 |-> "chiiki"],
         << >>, <<address_element.x>>, address_element)

\* _get_address_morphemes: dummy_node, made from the first candidate
DummyNode(node) ==
    Node(node.surface, NORMAL,
         [node.morphemes EXCEPT !.subclass1 = "koyuu", !.subclass2 = "chiiki"],
         << >>, NoValue, NoProp)

RECURSIVE BestCandidate(_, _, _, _, _)
\* _get_address_morphemes: for node in nodes; cand is << >> for None
BestCandidate(parent, nodes, k, cand, max_score) ==
    IF k > Len(nodes) THEN cand
    ELSE IF PropGet(nodes[k].prop, "ne_class", "") \notin AddressClasses
         THEN BestCandidate(parent, nodes, k + 1, cand, max_score)
         ELSE IF node_relation_score(parent, nodes[k]) > max_score
              THEN BestCandidate(parent, nodes, k + 1, <<nodes[k]>>,
                                 node_relation_score(parent, nodes[k]))
              ELSE BestCandidate(parent, nodes, k + 1, cand, max_score)

RECURSIVE BindFrom(_, _, _, _)
\* _get_address_morphemes: for nodes in lattice_part, from position k on
BindFrom(address_element, lattice_part, k, parent) ==
    IF k > Len(lattice_part) THEN << >>
    ELSE IF lattice_part[k][1].node_type # GEOWORD
    THEN <<lattice_part[k][1]>>
         \o BindFrom(address_element, lattice_part, k + 1, parent)
    ELSE IF \A j \in 1..Len(address_element.fullname) :
                address_element.fullname[j] # lattice_part[k][1].surface
    THEN <<DummyNode(lattice_part[k][1])>>
         \o BindFrom(address_element, lattice_part, k + 1, parent)
    ELSE IF BestCandidate(parent, lattice_part[k], 1, << >>, 0) # << >>
    THEN BestCandidate(parent, lattice_part[k], 1, << >>, 0)
         \o BindFrom(address_element, lattice_part, k + 1,
                     BestCandidate(parent, lattice_part[k], 1, << >>, 0)[1])
    ELSE <<DummyNode(lattice_part[k][1])>>
         \o BindFrom(address_element, lattice_part, k + 1, parent)

\* Parser._get_address_morphemes: one morpheme node for each position of
\* lattice_part
get_address_morphemes(address_element, lattice_part) ==
    BindFrom(address_element, lattice_part, 1, ParentNode(address_element))

\* the surfaces of a list of nodes
Surfaces(nodes) == [k \in 1..Len(nodes) |-> nodes[k].surface]

\* add_address_candidates: new_nodes for the result res of get_addresses
NewAddressNodes(l, i, r) ==
    IF r.address = << >> THEN << >>
    ELSE SelectSeq(
            [k \in 1..Len(r.address) |->
                Node(r.surface, ADDRESS, WordPos,
                     Surfaces(get_address_morphemes(r.address[k],
                                                    Slice(l, i, r.pos))),
                     <<r.address[k].x>>, r.address[k])],
            LAMBDA node : Len(node.inner) # 0)

AddressFrame ==
    UNCHANGED <<callVars, chunkVars, linkVars, filterVars, max_results,
                max_combinations, error, keep_nodes>>

\* a pass over a position that cannot start an address
AddressSkip ==
    /\ phase = "address"
    /\ idx < Len(lattice)
    /\ ~can_be_address(lattice[idx + 1])
    /\ idx' = idx + 1
    /\ UNCHANGED <<lattice, res, made, phase>>
    /\ AddressFrame

\* the next position at which every pass goes on
NextIndexStepsOne(keep, i, r) == i + 1

\* add_address_candidates: i after new nodes were added
NextIndex(keep, i, r) == IF keep THEN r.pos ELSE i + 1

\* a pass over a position that can: get_addresses, then the new nodes are
\* added to the position (keep_nodes) or replace the positions they cover
AddressResolve ==
    /\ phase = "address"
    /\ idx < Len(lattice)
    /\ can_be_address(lattice[idx + 1])
    /\ \E geocoding_result \in GeocoderResults(QueryFrom(lattice, idx, << >>)) :
       \E r \in {get_addresses(lattice, idx, geocoding_result)} :
       \E new_nodes \in {NewAddressNodes(lattice, idx, r)} :
          /\ res' = r
          /\ IF Len(new_nodes) > 0
             THEN /\ made' = Append(made,
                                [nodes |-> new_nodes,
                                 part |-> Slice(lattice, idx, r.pos),
                                 at |-> idx])
                  /\ IF keep_nodes
                     THEN lattice' = [lattice EXCEPT
                                         ![idx + 1] = @ \o new_nodes]
                     ELSE lattice' = Slice(lattice, 0, idx)
                                     \o <<new_nodes>>
                                     \o Slice(lattice, r.pos, Len(lattice))
                  /\ idx' = NextIndex(keep_nodes, idx, r)
             ELSE /\ idx' = idx + 1
                  /\ UNCHANGED <<lattice, made>>
    /\ UNCHANGED phase
    /\ AddressFrame

\* the end of the sentence: return lattice
AddressReturn ==
    /\ phase = "address"
    /\ idx >= Len(lattice)
    /\ phase' = "addressed"
    /\ UNCHANGED <<lattice, res, idx, made>>
    /\ AddressFrame

\* longest lattice handed to add_address_candidates
MaxAddrLen == 3

CityAB ==
    GeowordNode(<<"a", "b">>, <<0>>,
        GeoProp(10, <<"a", "b">>, "city", {}, NoValue, NoValue))
TownCD ==
    GeowordNode(<<"c", "d">>, <<3>>,
        GeoProp(11, <<"c", "d">>, "town", {<<"a", "b">>}, NoValue, NoValue))
StationCD ==
    GeowordNode(<<"c", "d">>, <<8>>,
        GeoProp(12, <<"c", "d">>, "station", {}, NoValue, NoValue))

\* the candidate lists of Parser.analyze_sentence, with their surfaces
AddrCands ==
    {<<CityAB>>,
     <<StationCD, TownCD>>,
     <<NormalNode(<<"e", "f">>, WordPos)>>,
     <<NormalNode(<<"1">>, WordPos)>>}

AddrLattices == UNION {[1..n -> AddrCands] : n \in 1..MaxAddrLen}

AddressInit ==
    /\ lattice \in AddrLattices
    /\ keep_nodes \in BOOLEAN
    /\ idx = 0
    /\ res = NoProp
    /\ made = << >>
    /\ args = NoProp
    /\ out = NoProp
    /\ phase = "address"
    /\ error = "none"
    /\ input = lattice
    /\ applied = 0
    /\ max_results = 1
    /\ max_combinations = MAX_COMBINATIONS
    /\ counters = << >>
    /\ prev = << >>
    /\ emitted = << >>
    /\ results = << >>
    /\ pos_from = 0
    /\ pos_to = 0
    /\ pieces = << >>
    /\ spin = FALSE

AddressNext == AddressSkip \/ AddressResolve \/ AddressReturn

\* Parser.add_address_candidates on the lattice of Parser.analyze_sentence
SpecAddress == AddressInit /\ [][AddressNext]_vars

----------------------------------------------------------------------------
(* A single call of Parser._get_address_morphemes *)

\* longest lattice_part bound to an address
MaxBindLen == 2

\* a second town of the surface of TownCD, far from the addresses
FarTownCD ==
    GeowordNode(<<"c", "d">>, <<200>>,
        GeoProp(13, <<"c", "d">>, "town", {}, NoValue, NoValue))

\* the candidate lists of Parser.analyze_sentence: the Normal alternative
\* of a geoword, when there is one, is the first candidate
BindCands ==
    {<<CityAB>>,
     <<StationCD, TownCD>>,
     <<FarTownCD, TownCD>>,
     <<StationCD>>,
     <<NormalNode(<<"c", "d">>, WordPos), TownCD>>,
     <<NormalNode(<<"e", "f">>, WordPos)>>}

\* address elements of the geocoder
BindAddresses ==
    {[fullname |-> f, level |-> Len(f), x |-> x] :
        f \in {<<(<<"a", "b">>), (<<"c", "d">>)>>, <<(<<"a", "b">>)>>,
               <<(<<"z">>)>>},
        x \in {1, 90}}

CallFrame ==
    UNCHANGED <<lattice, chunkVars, linkVars, filterVars, addrVars,
                max_results, max_combinations, error>>

\* the variables a single call does not use
CallInit ==
    /\ lattice = << >>
    /\ error = "none"
    /\ max_results = 1
    /\ max_combinations = MAX_COMBINATIONS
    /\ counters = << >>
    /\ prev = << >>
    /\ emitted = << >>
    /\ results = << >>
    /\ pos_from = 0
    /\ pos_to = 0
    /\ pieces = << >>
    /\ spin = FALSE
    /\ res = NoProp
    /\ idx = 0
    /\ keep_nodes = FALSE
    /\ made = << >>
    /\ input = << >>
    /\ applied = 0
    /\ out = NoProp

BindInit ==
    /\ args \in [address_element : BindAddresses,
                 lattice_part : UNION {[1..n -> BindCands] :
                                          n \in 1..MaxBindLen}]
    /\ phase = "bind"
    /\ CallInit

\* morphemes = self._get_address_morphemes(address, lattice[i:res['pos']])
BindCall ==
    /\ phase = "bind"
    /\ out' = get_address_morphemes(args.address_element, args.lattice_part)
    /\ phase' = "bound"
    /\ UNCHANGED args
    /\ CallFrame

BindNext == BindCall

SpecBind == BindInit /\ [][BindNext]_vars

----------------------------------------------------------------------------
(* One call of Filter.apply on a lattice that may hold Address nodes.  The *)
(* call ends with a lattice or an exception and leaves the lattice it was  *)
(* given as its in-place writes left it.                                   *)

\* Node.morphemes of an Address node is the list of its inner morphemes,
\* of the other nodes a dict
MorphemesIsList(node) == node.node_type = ADDRESS

\* Filter.apply reaches new_node = copy.copy(candidates[0]): nothing passed
\* and there is no Normal candidate
Synthesizes(f, candidates) ==
    /\ Len(apply_filter(f, candidates)) = 0
    /\ when_all_failed(f) = "convert_to_normal"
    /\ \A k \in 1..Len(candidates) : candidates[k].node_type # NORMAL

\* the exception one pass of the for loop of Filter.apply ends with:
\* FilterError of duration_from_candidate, or AttributeError of
\* new_node.morphemes.update on a list
PositionRaises(f, candidates) ==
    IF /\ f.kind \in TimeKinds
       /\ \E k \in 1..Len(candidates) : CandidateRaises(candidates[k])
    THEN "FilterError"
    ELSE IF Synthesizes(f, candidates) /\ MorphemesIsList(candidates[1])
    THEN "AttributeError"
    ELSE "none"

\* the first position at which Filter.apply raises, 0 when it returns
RaisedAt(f, l) ==
    LET raising == {i \in 1..Len(l) : PositionRaises(f, l[i]) # "none"}
    IN IF raising = {} THEN 0 ELSE Min(raising)

\* new_node.morphemes.update({...}): new_node is a shallow copy, the dict
\* is the one candidates[0] holds
UpdatedHead(candidates) ==
    [candidates EXCEPT ![1].morphemes = [@ EXCEPT !.pos = "meishi",
                                                  !.subclass1 = "koyuu",
                                                  !.subclass2 = "chiiki"]]

\* the lattice given to Filter.apply, after the call
InputAfterApply(f, l) ==
    [i \in 1..Len(l) |->
        IF /\ Synthesizes(f, l[i])
           /\ ~MorphemesIsList(l[i][1])
           /\ RaisedAt(f, l) = 0 \/ i < RaisedAt(f, l)
        THEN UpdatedHead(l[i])
        ELSE l[i]]

\* Filter.apply(input): what it raised, what it returned, what it left
ApplyResult(f, l) ==
    IF RaisedAt(f, l) # 0
    THEN [raised |-> PositionRaises(f, l[RaisedAt(f, l)]),
          output |-> << >>,
          input |-> InputAfterApply(f, l)]
    ELSE [raised |-> "none",
          output |-> FilterApply(f, l),
          input |-> InputAfterApply(f, l)]

\* longest lattice of a single call of Filter.apply
MaxApplyLen == 2

\* an address of the geocoder, far from the first region
AddressAB == AddressNode(<<"a", "b">>, <<(<<"a">>), (<<"b">>)>>, <<40>>)

\* the candidate lists of Parser.analyze_sentence and of
\* Parser.add_address_candidates, replace mode and keep mode
ApplyCands ==
    {WordCands,
     <<OldStation, NewCity>>,
     <<NormalNode(<<"c">>, WordPos), MidStation>>,
     <<UndatedTown>>,
     <<AddressAB>>,
     <<NewCity, AddressAB>>}

\* the filters whose when_all_failed is 'convert_to_normal'
ApplyFilters ==
    {EntityClassFilter(ne_class) : ne_class \in FilterClasses}
    \cup {SpatialFilter(kind, geo) :
            kind \in {"GeoContains", "GeoDisjoint"}, geo \in FilterRegions}
    \cup {TemporalFilter(kind, date_from, date_to) :
            kind \in TimeKinds, date_from \in FilterDatesFrom,
            date_to \in FilterDatesTo}

ApplyInit ==
    /\ args \in [f : ApplyFilters,
                 input : UNION {[1..n -> ApplyCands] : n \in 1..MaxApplyLen}]
    /\ phase = "apply"
    /\ CallInit

\* output = filter.apply(input)
ApplyCall ==
    /\ phase = "apply"
    /\ out' = ApplyResult(args.f, args.input)
    /\ phase' = "applied"
    /\ UNCHANGED args
    /\ CallFrame

ApplyNext == ApplyCall

SpecApply == ApplyInit /\ [][ApplyNext]_vars

----------------------------------------------------------------------------
(* One call of filter_func of a temporal filter: the filter is built from  *)
(* two date strings, the candidate carries any pair of dates or none.      *)

\* the last day of the dates of filters and candidates
MaxDay == 4

\* date strings that parse
Days == {<<d>> : d \in 1..MaxDay}

\* what valid_from and valid_to of a candidate hold: nothing, a string that
\* is not a date, or a date
CandidateDates == {NoValue, <<-1>>} \cup Days

\* a Normal node, an Address node (its prop has no valid_from or valid_to)
\* and the Geoword nodes of every pair of dates
TimeCandidates ==
    {NormalNode(<<"w">>, WordPos), AddressAB}
    \cup {GeowordNode(<<"a">>, <<0>>,
                      GeoProp(6, <<"a">>, "station", {}, valid_from, valid_to)) :
            valid_from \in CandidateDates, valid_to \in CandidateDates}

\* filter = F(date_from, date_to); filter.filter_func(candidate)
TimeResult(kind, date_from, date_to, candidate) ==
    LET f == TemporalFilter(kind, date_from, date_to)
    IN [duration |-> f.duration,
        raised |-> CandidateRaises(candidate),
        passed |-> ~CandidateRaises(candidate) /\ filter_func(f, candidate)]

TimeInit ==
    /\ args \in [kind : TimeKinds, date_from : Days,
                 date_to : {NoValue} \cup Days, candidate : TimeCandidates]
    /\ phase = "time"
    /\ CallInit

TimeCall ==
    /\ phase = "time"
    /\ out' = TimeResult(args.kind, args.date_from, args.date_to,
                         args.candidate)
    /\ phase' = "timed"
    /\ UNCHANGED args
    /\ CallFrame

TimeNext == TimeCall

SpecTime == TimeInit /\ [][TimeNext]_vars

----------------------------------------------------------------------------
(* One call of ScoringClass.path_score with the default options.           *)

\* longest path scored
MaxPathLen == 7

\* the nodes of a path: a word, a geoword, a geoword far from it, an address
PathNodes ==
    {NormalNode(<<"w">>, WordPos), StationA1, FarTownCD, AddressAB}

ScoreInit ==
    /\ args \in [path : UNION {[1..n -> PathNodes] : n \in 0..MaxPathLen}]
    /\ phase = "score"
    /\ CallInit

\* score = scorer.path_score(path)
ScoreCall ==
    /\ phase = "score"
    /\ out' = [score |-> path_score(args.path)]
    /\ phase' = "scored"
    /\ UNCHANGED args
    /\ CallFrame

ScoreNext == ScoreCall

SpecScore == ScoreInit /\ [][ScoreNext]_vars

----------------------------------------------------------------------------
(* Calls of Node.get_notations on one node.  out.attr is the node's _attr, *)
(* out.returned what the calls returned, the first call first.             *)

\* longest surface of the node
MaxSurfaceLen == 2

\* most calls of get_notations on the node
MaxCalls == 2

\* the surfaces and bodies of the nodes
NodeSurfaces == UNION {[1..n -> {"a", "b"}] : n \in 1..MaxSurfaceLen}

\* prop['prefix'] and prop['suffix'] of a gazetteer entry: none, one, or
\* one and the empty string
Affixes == {<< >>, <<(<<"p">>)>>, <<(<<"p">>), << >>>>}

\* the nodes of Parser.analyze_sentence and Parser.add_address_candidates
NotationNodes ==
    {NormalNode(surface, WordPos) : surface \in NodeSurfaces}
    \cup {AddressNode(surface, <<surface>>, <<1>>) : surface \in NodeSurfaces}
    \cup {GeowordNode(body, <<0>>,
                      [GeoProp(6, body, "station", {}, NoValue, NoValue)
                          EXCEPT !.prefix = prefixes, !.suffix = suffixes]) :
            body \in NodeSurfaces, prefixes \in Affixes, suffixes \in Affixes}

\* Node.get_notations on a node whose _attr is attr: the _attr it leaves
\* and the set it returns
GetNotations(node, attr) ==
    IF "notations" \in DOMAIN attr
    THEN [attr |-> attr, value |-> attr.notations]
    ELSE [attr |-> [notations |-> get_notations(node)],
          value |-> get_notations(node)]

\* Node.__init__: self._attr = {}
NotationsInit ==
    /\ args \in [node : NotationNodes]
    /\ out = [attr |-> << >>, returned |-> << >>]
    /\ phase = "notations"
    /\ lattice = << >>
    /\ error = "none"
    /\ max_results = 1
    /\ max_combinations = MAX_COMBINATIONS
    /\ counters = << >>
    /\ prev = << >>
    /\ emitted = << >>
    /\ results = << >>
    /\ pos_from = 0
    /\ pos_to = 0
    /\ pieces = << >>
    /\ spin = FALSE
    /\ res = NoProp
    /\ idx = 0
    /\ keep_nodes = FALSE
    /\ made = << >>
    /\ input = << >>
    /\ applied = 0

\* node.get_notations()
NotationsCall ==
    /\ phase = "notations"
    /\ Len(out.returned) < MaxCalls
    /\ \E r \in {GetNotations(args.node, out.attr)} :
          out' = [attr |-> r.attr, returned |-> Append(out.returned, r.value)]
    /\ UNCHANGED <<args, phase>>
    /\ CallFrame

NotationsNext == NotationsCall

SpecNotations == NotationsInit /\ [][NotationsNext]_vars

----------------------------------------------------------------------------
(* Statistics.count_geowords and Workflow.set_filters.  A class name with  *)
(* a '/' is a sub-class of the label before the '/'.                       *)

\* '/' in ne
HasSlash(ne) == ne \in {"rail/station", "rail/stop"}

\* ne[0: ne.find('/')]
ne_basic(ne) == IF HasSlash(ne) THEN "rail" ELSE ne

\* set(ne_list) of one position: the classes of its geoword candidates
NeSet(nodes) ==
    {nodes[k].prop.ne_class :
        k \in {j \in 1..Len(nodes) : nodes[j].node_type = GEOWORD}}

\* what one position adds to ne_classes[key]: one for the class itself and
\* one for every sub-class of the label
NeAdded(nodes, key) ==
    Cardinality({ne \in NeSet(nodes) : ne = key})
    + Cardinality({ne \in NeSet(nodes) : HasSlash(ne) /\ ne_basic(ne) = key})

\* Statistics.count_geowords
count_geowords(l) ==
    LET keys == UNION {NeSet(l[p]) \cup {ne_basic(ne) : ne \in NeSet(l[p])} :
                          p \in 1..Len(l)}
    IN [num_geowords |->
            Cardinality({p \in 1..Len(l) :
                \E k \in 1..Len(l[p]) : l[p][k].node_type = GEOWORD}),
        num_addresses |->
            Cardinality({p \in 1..Len(l) :
                \E k \in 1..Len(l[p]) : l[p][k].node_type = ADDRESS}),
        ne_classes |->
            [key \in keys |->
                SumOver([p \in 1..Len(l) |-> NeAdded(l[p], key)],
                        1..Len(l))]]

\* num_geowords >= 5 and ne_classes.get(label, 0) / num_geowords >= 0.75
Dominant(gstat, label) ==
    /\ gstat.num_geowords >= 5
    /\ 4 * PropGet(gstat.ne_classes, label, 0) >= 3 * gstat.num_geowords

\* the class names the patterns of set_filters match
PrefPattern == {"pref"}
CityPattern == {"pref", "city"}
RailPattern == {"city", "rail", "rail/station", "rail/stop"}

\* set_filters putting the class filter before the caller's filters
set_filtersClassFirst(filters, l) ==
    LET gstat == count_geowords(l)
    IN IF Dominant(gstat, "pref")
       THEN <<EntityClassFilter(PrefPattern)>> \o filters
            \o <<GreedySearchFilter>>
       ELSE IF Dominant(gstat, "city")
       THEN <<EntityClassFilter(CityPattern)>> \o filters
            \o <<GreedySearchFilter>>
       ELSE IF Dominant(gstat, "rail")
       THEN <<EntityClassFilter(RailPattern)>> \o filters
            \o <<GreedySearchFilter>>
       ELSE filters

\* Workflow.set_filters with self.filters = filters
set_filters(filters, l) ==
    LET gstat == count_geowords(l)
    IN IF Dominant(gstat, "pref")
       THEN filters \o <<EntityClassFilter(PrefPattern), GreedySearchFilter>>
       ELSE IF Dominant(gstat, "city")
       THEN filters \o <<EntityClassFilter(CityPattern), GreedySearchFilter>>
       ELSE IF Dominant(gstat, "rail")
       THEN filters \o <<EntityClassFilter(RailPattern), GreedySearchFilter>>
       ELSE filters

\* longest lattice handed to set_filters
MaxStatLen == 5

\* most filters the caller gave the workflow
MaxUserFilters == 2

StatGeoword(id, ne_class) ==
    GeowordNode(<<"g">>, <<0>>,
                GeoProp(id, <<"g">>, ne_class, {}, NoValue, NoValue))

\* positions: a word, a prefecture, a city, a station, and a name that is
\* a station or a tram stop
StatCands ==
    {WordCands,
     <<StatGeoword(20, "pref")>>,
     <<StatGeoword(21, "city")>>,
     <<StatGeoword(22, "rail/station")>>,
     <<StatGeoword(22, "rail/station"), StatGeoword(23, "rail/stop")>>}

\* the filters of the caller, in the caller's order
UserFilters ==
    [k \in 1..MaxUserFilters |->
        IF k % 2 = 1 THEN SpatialFilter("GeoContains", <<0, 10>>)
        ELSE TemporalFilter("TimeExists", <<1>>, NoValue)]

SetFiltersInit ==
    /\ args \in [filters : {SubSeq(UserFilters, 1, n) : n \in 0..MaxUserFilters},
                 lattice : UNION {[1..n -> StatCands] : n \in 0..MaxStatLen}]
    /\ phase = "set_filters"
    /\ CallInit

\* filters = self.set_filters(lattice)
SetFiltersCall ==
    /\ phase = "set_filters"
    /\ out' = [filters |-> set_filters(args.filters, args.lattice),
               gstat |-> count_geowords(args.lattice)]
    /\ phase' = "filters_set"
    /\ UNCHANGED args
    /\ CallFrame

SetFiltersNext == SetFiltersCall

SpecSetFilters == SetFiltersInit /\ [][SetFiltersNext]_vars

----------------------------------------------------------------------------
(* Calls of Parser.geoparse(sentence, filters) that hand in the same list  *)
(* object, without a geocoder.  The sentences are short: their lattices    *)
(* stay below MAX_COMBINATIONS and get_processible_lattice_part yields     *)
(* them whole.  out.filters is the caller's list, out.calls the sentences  *)
(* parsed so far with the features returned.                               *)

RECURSIVE ChainFrom(_, _, _)
\* for f in filters: lattice = f(lattice), from the k-th filter on
ChainFrom(filters, l, k) ==
    IF k > Len(filters) THEN l
    ELSE ChainFrom(filters,
                   IF filters[k].kind = "GreedySearch" THEN GreedyApply(l)
                   ELSE FilterApply(filters[k], l),
                   k + 1)

RECURSIVE RankFrom(_, _, _, _)
\* RankedResults.get: for path in lr, from the counters c on
RankFrom(l, c, rs, maxr) ==
    IF get_result(l, c).none THEN rs
    ELSE RankFrom(l, increment_counter(l, c),
                  KeepRecord(rs, [score |-> path_score(get_result(l, c).path),
                                  result |-> get_result(l, c).path], maxr),
                  maxr)

\* Parser.geoparse: filters is the list object of the caller, to which the
\* class filter and the greedy search are appended; the nodes of the best
\* path are the features
ParserGeoparse(filters, l) ==
    LET used == set_filters(filters, l)
        ranked == RankFrom(ChainFrom(used, l, 1),
                           reset_counter(ChainFrom(used, l, 1)), << >>, 1)
    IN [filters |-> used, features |-> ranked[1].result]

\* most calls of geoparse with the same list
MaxSessionCalls == 3

\* the lattices of the sentences: five prefectures, a word and a station,
\* a word, a name that is a station or a tram stop
SessionTexts ==
    {[p \in 1..5 |-> <<StatGeoword(20, "pref")>>],
     <<WordCands, <<StatGeoword(22, "rail/station")>>>>,
     <<WordCands>>,
     <<<<StatGeoword(22, "rail/station"), StatGeoword(23, "rail/stop")>>>>}

SessionInit ==
    /\ args \in [filters : {SubSeq(UserFilters, 1, n) :
                               n \in 0..MaxUserFilters}]
    /\ out = [filters |-> args.filters, calls |-> << >>]
    /\ phase = "session"
    /\ lattice = << >>
    /\ error = "none"
    /\ max_results = 1
    /\ max_combinations = MAX_COMBINATIONS
    /\ counters = << >>
    /\ prev = << >>
    /\ emitted = << >>
    /\ results = << >>
    /\ pos_from = 0
    /\ pos_to = 0
    /\ pieces = << >>
    /\ spin = FALSE
    /\ res = NoProp
    /\ idx = 0
    /\ keep_nodes = FALSE
    /\ made = << >>
    /\ input = << >>
    /\ applied = 0

\* features = parser.geoparse(sentence, filters)
GeoparseCall ==
    /\ phase = "session"
    /\ Len(out.calls) < MaxSessionCalls
    /\ \E text \in SessionTexts :
       \E r \in {ParserGeoparse(out.filters, text)} :
          out' = [filters |-> r.filters,
                  calls |-> Append(out.calls,
                                   [text |-> text, features |-> r.features])]
    /\ UNCHANGED <<args, phase>>
    /\ CallFrame

SessionNext == GeoparseCall

SpecSession == SessionInit /\ [][SessionNext]_vars

----------------------------------------------------------------------------
(* Parser.analyze_sentence.  A word of the tokenizer is a record; its      *)
(* conjugated_form is the list of the parts between '-', <<"*">> for '*';  *)
(* its subclass3 is the list of the gazetteer ids of a geoword.  words[i]  *)
(* of the code is Word(i).  One action is one pass of the while loop.      *)

Token(surface, pos, subclass1, subclass2, conjugated_form, subclass3) ==
    [surface |-> surface, pos |-> pos, subclass1 |-> subclass1,
     subclass2 |-> subclass2, conjugated_form |-> conjugated_form,
     subclass3 |-> subclass3]

PersonSei == <<"meishi", "koyuu", "jinmei", "sei">>
PersonMei == <<"meishi", "koyuu", "jinmei", "mei">>

\* the words the tokenizer gives: BOS/EOS, a particle, a noun, a person's
\* name, a name suffix, an era name, a number, 'year', a symbol, a geoword
\* and a geoword that is a family name as well
BosEos == Token(<< >>, "BOS/EOS", "*", "*", <<"*">>, << >>)
TokenKinds ==
    {BosEos,
     Token(<<"w">>, "joshi", "kaku", "*", <<"*">>, << >>),
     Token(<<"n">>, "meishi", "ippan", "*", <<"*">>, << >>),
     Token(<<"p">>, "meishi", "koyuu", "jinmei", <<"*">>, << >>),
     Token(<<"s">>, "meishi", "setsubi", "jinmei", <<"*">>, << >>),
     Token(<<"E">>, "meishi", "koyuu", "ippan", <<"*">>, << >>),
     Token(<<"1">>, "meishi", "kazu", "*", <<"*">>, << >>),
     Token(<<"Y">>, "meishi", "setsubi", "josuushi", <<"*">>, << >>),
     Token(<<"/">>, "kigou", "ippan", "*", <<"*">>, << >>),
     Token(<<"a">>, "meishi", "koyuu", "chimeigo", <<"*">>, <<1, 2>>),
     Token(<<"b">>, "meishi", "koyuu", "chimeigo", PersonSei, <<3>>)}

\* surface in ('明治', '大正', '昭和', '平成', '令和', '西暦',)
EraSurfaces == {<<"E">>}

\* n['surface'] in ('年', '年度', '年代', '元年', )
YearSurfaces == {<<"Y">>}

\* service.getWordInfo: the gazetteer entry of an id
WordInfo(geolod_id) ==
    CASE geolod_id = 1 -> StationA1
      [] geolod_id = 2 -> StationA2
      [] OTHER -> CityB1

Word(i) == args.words[i + 1]

\* next_word and nnext_word are not None
HasWord(i) == i < Len(args.words)

\* Parser._check_word(word, {'pos':, 'subclass1':, 'subclass2':})
check_word(word, pos, subclass1, subclass2) ==
    word.pos = pos /\ word.subclass1 = subclass1 /\ word.subclass2 = subclass2

\* Parser._get_alternative_word: the morpheme of the node
get_alternative_word(word) ==
    IF ~check_word(word, "meishi", "koyuu", "chimeigo")
       \/ word.conjugated_form = <<"*">>
    THEN [pos |-> word.pos, subclass1 |-> word.subclass1,
          subclass2 |-> word.subclass2]
    ELSE LET pos_args == word.conjugated_form
         IN [pos |-> IF Len(pos_args) > 0 THEN pos_args[1] ELSE "",
             subclass1 |-> IF Len(pos_args) > 1 THEN pos_args[2] ELSE "*",
             subclass2 |-> IF Len(pos_args) > 2 THEN pos_args[3] ELSE "*"]

\* [Node(surface, Node.NORMAL, self._get_alternative_word(word))]
AlternativeCands(word) ==
    <<NormalNode(word.surface, get_alternative_word(word))>>

\* [Node(surface, Node.NORMAL, word)]
PlainCands(word) ==
    <<NormalNode(word.surface,
                 [pos |-> word.pos, subclass1 |-> word.subclass1,
                  subclass2 |-> word.subclass2])>>

\* the candidates of a geoword: the alternative, then the gazetteer entries
GeowordCands(word) ==
    (IF word.conjugated_form \notin {<< >>, <<"*">>}
     THEN AlternativeCands(word) ELSE << >>)
    \o [k \in 1..Len(word.subclass3) |->
            [WordInfo(word.subclass3[k]) EXCEPT !.surface = word.surface]]

\* the first person-name test: family name and given name, or two names
IsPerson1(i) ==
    /\ HasWord(i + 1)
    /\ \/ Word(i).conjugated_form = PersonSei
       \/ check_word(Word(i), "meishi", "koyuu", "jinmei")
    /\ \/ Word(i + 1).conjugated_form = PersonMei
       \/ check_word(Word(i + 1), "meishi", "koyuu", "jinmei")

\* the second: a noun and a name suffix
IsPerson2(i) ==
    /\ Word(i).pos = "meishi"
    /\ HasWord(i + 1)
    /\ check_word(Word(i + 1), "meishi", "setsubi", "jinmei")

\* the third: two nouns and a name suffix
IsPerson3(i) ==
    /\ Word(i).pos = "meishi"
    /\ HasWord(i + 1)
    /\ Word(i + 1).pos = "meishi"
    /\ HasWord(i + 2)
    /\ check_word(Word(i + 2), "meishi", "setsubi", "jinmei")

RECURSIVE EraScan(_)
\* while j < len(words): the j at which is_era became true, -1 if it did not
EraScan(j) ==
    IF ~HasWord(j) THEN -1
    ELSE IF Word(j).surface \in YearSurfaces \/ Word(j).pos = "kigou" THEN j
    ELSE IF Word(j).subclass1 # "kazu" THEN -1
    ELSE EraScan(j + 1)

IsEra(i) == Word(i).surface \in EraSurfaces /\ EraScan(i + 1) # -1

\* the words a person-name rule leaves behind it
ConsumedTwo(rule) == 2

\* i += 2, i += 2, i += 3
Consumed(rule) == IF rule = "person3" THEN 3 ELSE 2

\* most words between BOS and EOS
MaxWords == 3

AnalyzeFrame ==
    UNCHANGED <<args, out, chunkVars, linkVars, filterVars, res, keep_nodes,
                made, max_results, max_combinations, error>>

AnalyzeInit ==
    /\ args \in [words : {<<BosEos>> \o body \o <<BosEos>> :
                    body \in UNION {[1..n -> TokenKinds] : n \in 0..MaxWords}}]
    /\ out = NoProp
    /\ phase = "analyze"
    /\ lattice = << >>
    /\ idx = 0
    /\ error = "none"
    /\ max_results = 1
    /\ max_combinations = MAX_COMBINATIONS
    /\ counters = << >>
    /\ prev = << >>
    /\ emitted = << >>
    /\ results = << >>
    /\ pos_from = 0
    /\ pos_to = 0
    /\ pieces = << >>
    /\ spin = FALSE
    /\ res = NoProp
    /\ keep_nodes = FALSE
    /\ made = << >>
    /\ input = << >>
    /\ applied = 0

\* the loop is at a word
Analyzing == phase = "analyze" /\ HasWord(idx)

\* if surface == '': BOS, EOS
AnalyzeSkip ==
    /\ Analyzing
    /\ Word(idx).surface = << >>
    /\ idx' = idx + 1
    /\ UNCHANGED <<lattice, phase>>
    /\ AnalyzeFrame

AnalyzePerson1 ==
    /\ Analyzing
    /\ Word(idx).surface # << >>
    /\ IsPerson1(idx)
    /\ lattice' = lattice \o <<AlternativeCands(Word(idx)),
                                AlternativeCands(Word(idx + 1))>>
    /\ idx' = idx + Consumed("person1")
    /\ UNCHANGED phase
    /\ AnalyzeFrame

AnalyzePerson2 ==
    /\ Analyzing
    /\ Word(idx).surface # << >>
    /\ ~IsPerson1(idx)
    /\ IsPerson2(idx)
    /\ lattice' = lattice \o <<AlternativeCands(Word(idx)),
                                PlainCands(Word(idx + 1))>>
    /\ idx' = idx + Consumed("person2")
    /\ UNCHANGED phase
    /\ AnalyzeFrame

AnalyzePerson3 ==
    /\ Analyzing
    /\ Word(idx).surface # << >>
    /\ ~IsPerson1(idx)
    /\ ~IsPerson2(idx)
    /\ IsPerson3(idx)
    /\ lattice' = lattice \o <<AlternativeCands(Word(idx)),
                                AlternativeCands(Word(idx + 1)),
                                AlternativeCands(Word(idx + 2))>>
    /\ idx' = idx + Consumed("person3")
    /\ UNCHANGED phase
    /\ AnalyzeFrame

\* an era name, numbers, and 'year' or a symbol
AnalyzeEra ==
    /\ Analyzing
    /\ Word(idx).surface # << >>
    /\ ~IsPerson1(idx)
    /\ ~IsPerson2(idx)
    /\ ~IsPerson3(idx)
    /\ IsEra(idx)
    /\ \E j \in {EraScan(idx + 1)} :
          /\ lattice' = lattice \o [k \in 1..(j - idx + 1) |->
                                      AlternativeCands(Word(idx + k - 1))]
          /\ idx' = j + 1
    /\ UNCHANGED phase
    /\ AnalyzeFrame

\* the word is no geoword
AnalyzeDefault ==
    /\ Analyzing
    /\ Word(idx).surface # << >>
    /\ ~IsPerson1(idx)
    /\ ~IsPerson2(idx)
    /\ ~IsPerson3(idx)
    /\ ~IsEra(idx)
    /\ Word(idx).subclass2 # "chimeigo" \/ Word(idx).subclass1 = "setsubi"
    /\ lattice' = Append(lattice, PlainCands(Word(idx)))
    /\ idx' = idx + 1
    /\ UNCHANGED phase
    /\ AnalyzeFrame

\* the word is a geoword
AnalyzeGeoword ==
    /\ Analyzing
    /\ Word(idx).surface # << >>
    /\ ~IsPerson1(idx)
    /\ ~IsPerson2(idx)
    /\ ~IsPerson3(idx)
    /\ ~IsEra(idx)
    /\ ~(Word(idx).subclass2 # "chimeigo" \/ Word(idx).subclass1 = "setsubi")
    /\ lattice' = Append(lattice, GeowordCands(Word(idx)))
    /\ idx' = idx + 1
    /\ UNCHANGED phase
    /\ AnalyzeFrame

\* return lattice
AnalyzeReturn ==
    /\ phase = "analyze"
    /\ ~HasWord(idx)
    /\ phase' = "analyzed"
    /\ UNCHANGED <<lattice, idx>>
    /\ AnalyzeFrame

AnalyzeNext ==
    \/ AnalyzeSkip
    \/ AnalyzePerson1
    \/ AnalyzePerson2
    \/ AnalyzePerson3
    \/ AnalyzeEra
    \/ AnalyzeDefault
    \/ AnalyzeGeoword
    \/ AnalyzeReturn

SpecAnalyze == AnalyzeInit /\ [][AnalyzeNext]_vars

----------------------------------------------------------------------------
(* The active dictionaries of a Service.  A dictionary is its identifier;  *)
(* an idlist is the set of identifiers it lists and a pattern the set of   *)
(* identifiers re.search finds it in, each in a one-element tuple, and     *)
(* None is NoValue.  out.active is the set the tokenizer holds; the other  *)
(* fields of out record the last call.                                     *)

DictNames == {"pref", "city", "station"}

\* the dictionaries of `among` that idlist or pattern names
Selected(among, idlist, pattern) ==
    {d \in among : \/ idlist # NoValue /\ d \in idlist[1]
                   \/ pattern # NoValue /\ d \in pattern[1]}

\* Service.setActiveDictionaries
setActiveDictionaries(installed, active, idlist, pattern) ==
    LET active_dictionaries == Selected(installed, idlist, pattern)
    IN IF active_dictionaries = {}
       THEN [active |-> active, raised |-> TRUE]
       ELSE [active |-> active_dictionaries, raised |-> FALSE]

\* the test that is left out
NoneLeftIgnored(new_active_dictionaries) == FALSE

\* if len(new_active_dictionaries) == 0
NoneLeft(new_active_dictionaries) == new_active_dictionaries = {}

\* Service.disactivateDictionaries
disactivateDictionaries(installed, active, idlist, pattern) ==
    LET new_active_dictionaries == active \ Selected(active, idlist, pattern)
    IN IF NoneLeft(new_active_dictionaries)
       THEN [active |-> active, raised |-> TRUE]
       ELSE [active |-> new_active_dictionaries, raised |-> FALSE]

\* Service.activateDictionaries
activateDictionaries(installed, active, idlist, pattern) ==
    [active |-> active \cup Selected(installed, idlist, pattern),
     raised |-> FALSE]

\* the options 'set-dic', 'remove-dic' and 'add-dic' of a request, each a
\* regular expression or absent
NoDicOptions == [set_dic |-> NoValue, remove_dic |-> NoValue,
                 add_dic |-> NoValue]

\* apply_geonlp_api_parse_options, the dictionaries: back to all of them,
\* then 'set-dic', 'remove-dic' and 'add-dic'; an exception ends it
apply_dic_options(installed, active, options) ==
    LET s0 == setActiveDictionaries(installed, active, NoValue,
                                    <<DictNames>>)
        s1 == IF s0.raised \/ options.set_dic = NoValue THEN s0
              ELSE setActiveDictionaries(installed, s0.active, NoValue,
                                         options.set_dic)
        s2 == IF s1.raised \/ options.remove_dic = NoValue THEN s1
              ELSE disactivateDictionaries(installed, s1.active, NoValue,
                                           options.remove_dic)
    IN IF s2.raised \/ options.add_dic = NoValue THEN s2
       ELSE activateDictionaries(installed, s2.active, NoValue,
                                 options.add_dic)

\* None, a pattern found in no identifier, 'city', 'pref',
\* 'pref|station' and '.*'
Selections ==
    {NoValue, <<{}>>, <<{"city"}>>, <<{"pref"}>>, <<{"pref", "station"}>>,
     <<DictNames>>}

DicOptions == [set_dic : Selections, remove_dic : Selections,
               add_dic : Selections]

\* the variables no call on a service uses
IdleInit ==
    /\ lattice = << >>
    /\ error = "none"
    /\ max_results = 1
    /\ max_combinations = MAX_COMBINATIONS
    /\ counters = << >>
    /\ prev = << >>
    /\ emitted = << >>
    /\ results = << >>
    /\ pos_from = 0
    /\ pos_to = 0
    /\ pieces = << >>
    /\ spin = FALSE
    /\ res = NoProp
    /\ idx = 0
    /\ keep_nodes = FALSE
    /\ made = << >>
    /\ input = << >>
    /\ applied = 0

\* a service with its installed dictionaries, all of them active
DictInit ==
    /\ args \in [installed : SUBSET DictNames \ {{}}]
    /\ out = [active |-> args.installed, op |-> "init", idlist |-> NoValue,
              pattern |-> NoValue, options |-> NoDicOptions,
              before |-> args.installed, raised |-> FALSE]
    /\ phase = "dictionaries"
    /\ IdleInit

\* the record of a call
Called(op, idlist, pattern, options, r) ==
    [active |-> r.active, op |-> op, idlist |-> idlist, pattern |-> pattern,
     options |-> options, before |-> out.active, raised |-> r.raised]

SetActiveCall ==
    /\ phase = "dictionaries"
    /\ \E idlist \in Selections, pattern \in Selections :
          out' = Called("set", idlist, pattern, NoDicOptions,
                        setActiveDictionaries(args.installed, out.active,
                                              idlist, pattern))
    /\ UNCHANGED <<args, phase>>
    /\ CallFrame

DisactivateCall ==
    /\ phase = "dictionaries"
    /\ \E idlist \in Selections, pattern \in Selections :
          out' = Called("disactivate", idlist, pattern, NoDicOptions,
                        disactivateDictionaries(args.installed, out.active,
                                                idlist, pattern))
    /\ UNCHANGED <<args, phase>>
    /\ CallFrame

ActivateCall ==
    /\ phase = "dictionaries"
    /\ \E idlist \in Selections, pattern \in Selections :
          out' = Called("activate", idlist, pattern, NoDicOptions,
                        activateDictionaries(args.installed, out.active,
                                             idlist, pattern))
    /\ UNCHANGED <<args, phase>>
    /\ CallFrame

\* the dictionary options of a request of the web service
DicOptionsCall ==
    /\ phase = "dictionaries"
    /\ \E options \in DicOptions :
          out' = Called("options", NoValue, NoValue, options,
                        apply_dic_options(args.installed, out.active,
                                          options))
    /\ UNCHANGED <<args, phase>>
    /\ CallFrame

DictNext ==
    \/ SetActiveCall
    \/ DisactivateCall
    \/ ActivateCall
    \/ DicOptionsCall

SpecDict == DictInit /\ [][DictNext]_vars

----------------------------------------------------------------------------
(* The JSON-RPC method geonlp.parse handled by two threads.  out.shared is *)
(* what the process holds once: the active dictionaries and classes of the *)
(* service, the geocoder flag of the parser and the filters of the default *)
(* workflow.  out.pc is the statement each request is at and out.parsed    *)
(* what workflow.geoparse of the request found in out.shared.              *)

Requests == {1, 2}

\* the class options: 'set-class', then 'remove-class' with '-' before each
\* pattern, then 'add-class'
apply_class_options(options) ==
    (IF options.set_class = NoValue THEN << >> ELSE options.set_class[1])
    \o (IF options.remove_class = NoValue THEN << >>
        ELSE [k \in 1..Len(options.remove_class[1]) |->
                 <<"-">> \o options.remove_class[1][k]])
    \o (IF options.add_class = NoValue THEN << >> ELSE options.add_class[1])

\* get_filters_from_options
get_filters_from_options(options) ==
    (IF options.geo_contains = NoValue THEN << >>
     ELSE <<SpatialFilter("GeoContains", options.geo_contains[1])>>)
    \o (IF options.time_exists = NoValue THEN << >>
        ELSE <<TemporalFilter("TimeExists", options.time_exists, NoValue)>>)

\* options.get('geocoding') in (True, 'true', 'True',)
GeocodingOn(options) == options.geocoding \in {"True", "true"}

\* the options of a request
WebOptions ==
    [dic : {NoDicOptions,
            [NoDicOptions EXCEPT !.set_dic = <<{"city"}>>],
            [NoDicOptions EXCEPT !.remove_dic = <<{"station"}>>]},
     set_class : {NoValue, <<<< <<"c">> >>>>},
     remove_class : {NoValue, <<<< <<"r">> >>>>},
     add_class : {NoValue},
     geo_contains : {NoValue},
     time_exists : {NoValue, <<1>>},
     geocoding : {"", "true"}]

\* what a request parsed under when nothing else ran between its statements
OwnSettings(options) ==
    [active |-> apply_dic_options(DictNames, DictNames, options.dic).active,
     classes |-> apply_class_options(options),
     geocoder |-> GeocodingOn(options),
     filters |-> get_filters_from_options(options)]

WebInit ==
    /\ args \in [requests : [Requests -> WebOptions]]
    /\ out = [shared |-> [active |-> DictNames, classes |-> << >>,
                          geocoder |-> FALSE, filters |-> << >>],
              pc |-> [r \in Requests |-> "apply_options"],
              parsed |-> [r \in Requests |-> NoProp]]
    /\ phase = "web"
    /\ IdleInit

\* request r moves from statement `at` to statement `to`
Moves(r, at, to, shared, parsed) ==
    /\ phase = "web"
    /\ out.pc[r] = at
    /\ out' = [shared |-> shared,
               pc |-> [out.pc EXCEPT ![r] = to],
               parsed |-> parsed]
    /\ UNCHANGED <<args, phase>>
    /\ CallFrame

\* apply_geonlp_api_parse_options(options)
WebApplyOptions ==
    \E r \in Requests :
    \E d \in {apply_dic_options(DictNames, out.shared.active,
                                args.requests[r].dic)} :
        Moves(r, "apply_options",
              IF d.raised THEN "failed" ELSE "set_jageocoder",
              [out.shared EXCEPT
                  !.active = d.active,
                  !.classes = IF d.raised THEN @
                              ELSE apply_class_options(args.requests[r])],
              out.parsed)

\* workflow.parser.set_jageocoder(geocoder)
WebSetJageocoder ==
    \E r \in Requests :
        Moves(r, "set_jageocoder", "set_filters",
              [out.shared EXCEPT !.geocoder = GeocodingOn(args.requests[r])],
              out.parsed)

\* workflow.filters = filters
WebSetWorkflowFilters ==
    \E r \in Requests :
        Moves(r, "set_filters", "geoparse",
              [out.shared EXCEPT
                  !.filters = get_filters_from_options(args.requests[r])],
              out.parsed)

\* result = workflow.geoparse(sentence)
WebGeoparse ==
    \E r \in Requests :
        Moves(r, "geoparse", "done", out.shared,
              [out.parsed EXCEPT ![r] = out.shared])

WebNext ==
    \/ WebApplyOptions
    \/ WebSetJageocoder
    \/ WebSetWorkflowFilters
    \/ WebGeoparse

SpecWeb == WebInit /\ [][WebNext]_vars

----------------------------------------------------------------------------
(* The paths of LinkedResults on the lattice of add_address_candidates,    *)
(* also after a filter was applied to that lattice.  results holds the     *)
(* path emitted last.                                                      *)

\* the filters applied to the lattice with its address candidates
CoverFilters ==
    {SpatialFilter(kind, geo) :
        kind \in {"GeoContains", "GeoDisjoint"}, geo \in FilterRegions}

CoverFrame ==
    UNCHANGED <<callVars, chunkVars, filterVars, addrVars, max_results,
                max_combinations, prev>>

\* lattice = filter(lattice)
CoverFilter ==
    /\ phase = "addressed"
    /\ \E f \in CoverFilters :
       \E r \in {ApplyResult(f, lattice)} :
          IF r.raised # "none"
          THEN /\ error' = r.raised
               /\ phase' = "raised"
               /\ UNCHANGED lattice
          ELSE /\ lattice' = r.output
               /\ phase' = "filtered"
               /\ UNCHANGED error
    /\ UNCHANGED <<counters, emitted, results>>
    /\ CoverFrame

\* LinkedResults(lattice)
CoverStart ==
    /\ phase \in {"addressed", "filtered"}
    /\ counters' = reset_counter(lattice)
    /\ phase' = "iter"
    /\ UNCHANGED <<lattice, emitted, results, error>>
    /\ CoverFrame

\* __next__: get_result, then increment_counter
CoverStep ==
    /\ phase = "iter"
    /\ ~get_result(lattice, counters).none
    /\ results' = <<[result |-> get_result(lattice, counters).path]>>
    /\ emitted' = Append(emitted, counters)
    /\ counters' = increment_counter(lattice, counters)
    /\ UNCHANGED <<lattice, phase, error>>
    /\ CoverFrame

\* __next__ raises StopIteration
CoverEnd ==
    /\ phase = "iter"
    /\ get_result(lattice, counters).none
    /\ phase' = "returned"
    /\ UNCHANGED <<lattice, counters, emitted, results, error>>
    /\ CoverFrame

CoverNext ==
    \/ AddressSkip
    \/ AddressResolve
    \/ AddressReturn
    \/ CoverFilter
    \/ CoverStart
    \/ CoverStep
    \/ CoverEnd

SpecCover == AddressInit /\ [][CoverNext]_vars

----------------------------------------------------------------------------
(* A single call of GreedySearchFilter.apply *)

\* longest lattice handed to the greedy search
MaxGreedyLen == 3

\* a town between the candidates of <<CityB1, StationB2>>, as far from one
\* as from the other in the terms of node_relation_score
GreedyTown ==
    GeowordNode(<<"t">>, <<20>>,
        GeoProp(6, <<"t">>, "town", {}, NoValue, NoValue))

\* the candidate lists of Parser.analyze_sentence
GreedyCands ==
    {WordCands,
     <<StationA1, StationA2>>,
     <<CityB1, StationB2>>,
     <<NormalNode(<<"c">>, WordPos), StationC1>>,
     <<GreedyTown>>,
     <<StationC1>>,
     <<CityB1>>}

GreedyInit ==
    /\ args \in [input : UNION {[1..n -> GreedyCands] : n \in 1..MaxGreedyLen}]
    /\ phase = "greedy"
    /\ CallInit

\* output = GreedySearchFilter().apply(input)
GreedyCall ==
    /\ phase = "greedy"
    /\ out' = [output |-> GreedyApply(args.input)]
    /\ phase' = "greedy_applied"
    /\ UNCHANGED args
    /\ CallFrame

GreedyNext == GreedyCall

SpecGreedy == GreedyInit /\ [][GreedyNext]_vars

----------------------------------------------------------------------------
(* Claims about the chunker *)

ChunkerEnded == pos_from >= Len(lattice)

PieceOf(k) == Slice(lattice, pieces[k][1], pieces[k][2])

RECURSIVE ConcatPieces(_)
ConcatPieces(k) == IF k = 0 THEN << >> ELSE ConcatPieces(k - 1) \o PieceOf(k)

\* C1: Parser.get_processible_lattice_part terminates on every lattice with
\* non-empty positions: no pass of its outer loop leaves both pos_from and
\* pos_to as they were (a pass that does repeats forever), also on a window
\* of one or two positions without punctuation and with 256 or more
\* combinations.
C1_ParserChunkerTerminates == spin = FALSE

\* C2: every piece handed to the evaluator has a combination count strictly
\* below MAX_COMBINATIONS, and the evaluator's LinkerError never ends
\* geoparse.
C2_PiecesBelowBound ==
    /\ \A k \in 1..Len(pieces) :
          count_combinations(PieceOf(k)) < MAX_COMBINATIONS
    /\ error # "LinkerError"

\* C3: the pieces yielded so far are non-empty contiguous slices that
\* start at position 0 and end where the next window starts, and when the
\* generator has ended their concatenation in yield order is the lattice.
C3_PiecesPartitionLattice ==
    /\ \A k \in 1..Len(pieces) : pieces[k][1] < pieces[k][2]
    /\ \A k \in 1..Len(pieces) :
          pieces[k][1] = (IF k = 1 THEN 0 ELSE pieces[k - 1][2])
    /\ pos_from = (IF pieces = << >> THEN 0 ELSE pieces[Len(pieces)][2])
    /\ ConcatPieces(Len(pieces)) = Slice(lattice, 0, pos_from)
    /\ ChunkerEnded => ConcatPieces(Len(pieces)) = lattice

\* a run that halved a lattice of 16 x 16 x 16 combinations twice and ended
C3_Witness ==
    /\ ChunkerEnded
    /\ error = "none"
    /\ Len(lattice) = 3
    /\ \A p \in 1..3 : lattice[p] = Geo16Cands
    /\ pieces = <<(<<0, 1>>), (<<1, 2>>), (<<2, 3>>)>>

\* C4: every pass of Workflow.get_processible_lattice_part's outer loop
\* either yields a piece and advances pos_from or strictly decreases
\* pos_to, also when a keep-mode Address reaches the end of the window.
C4_WorkflowPassProgresses ==
    [][WorkflowNext => (pos_from' > pos_from \/ pos_to' < pos_to)]_vars

----------------------------------------------------------------------------
(* Claims about the evaluator *)

\* the k-th path the enumerator returned, and its score
PathOf(k) == ResultFrom(lattice, emitted[k], 0)
ScoreOf(k) == path_score(PathOf(k))

KeptSeqs == {results[i].seq : i \in 1..Len(results)}

RECURSIVE Product(_, _)
\* the product of the candidate counts of positions 1..n
Product(l, n) == IF n = 0 THEN 1 ELSE Product(l, n - 1) * Len(l[n])

\* C6: RankedResults.get returns emitted paths in order of non-increasing
\* score, min(max_results, number of emitted paths) of them, and no path
\* left out has a score above a returned one.
C6_RankedByScore ==
    phase = "returned" =>
        /\ \A i, j \in 1..Len(results) :
              i < j => results[i].score >= results[j].score
        /\ Len(results) =
              (IF max_results < Len(emitted) THEN max_results ELSE Len(emitted))
        /\ Cardinality(KeptSeqs) = Len(results)
        /\ \A i \in 1..Len(results) :
              /\ results[i].seq \in 1..Len(emitted)
              /\ results[i].result = PathOf(results[i].seq)
              /\ results[i].score = ScoreOf(results[i].seq)
        /\ \A k \in (1..Len(emitted)) \ KeptSeqs : \A i \in 1..Len(results) :
              ScoreOf(k) <= results[i].score

\* get returned two records of different score and left a path out
C6_Witness ==
    /\ phase = "returned"
    /\ max_results = 2
    /\ Len(emitted) >= 4
    /\ Len(results) = 2
    /\ results[1].score > results[2].score
    /\ results[1].seq > results[2].seq

\* C7: paths of equal score keep the enumerator's order in the returned
\* list, and when max_results cuts a group of equal score the paths
\* emitted first are the ones kept.
C7_TiesInEncounterOrder ==
    phase = "returned" =>
        /\ \A i, j \in 1..Len(results) :
              (i < j /\ results[i].score = results[j].score)
                  => results[i].seq < results[j].seq
        /\ \A k \in (1..Len(emitted)) \ KeptSeqs : \A i \in 1..Len(results) :
              ScoreOf(k) = results[i].score => results[i].seq < k

\* C8: get raises LinkerError exactly when the product of the candidate
\* counts exceeds max_combinations, and then before any path is enumerated
\* or scored; otherwise it returns at least one result.
C8_LinkerErrorIffOverBound ==
    /\ phase # "start" =>
          (error = "LinkerError"
              <=> Product(lattice, Len(lattice)) > max_combinations)
    /\ error = "LinkerError" =>
          phase = "raised" /\ counters = << >> /\ emitted = << >>
                           /\ results = << >>
    /\ phase = "returned" => error = "none" /\ Len(results) >= 1

\* get raised on 8 combinations with max_combinations 4
C8_Witness ==
    /\ phase = "raised"
    /\ error = "LinkerError"
    /\ max_combinations < MAX_COMBINATIONS
    /\ Product(lattice, Len(lattice)) = 8

LexLess(c, d) ==
    \E k \in 1..Len(c) :
        (\A j \in 1..(k - 1) : c[j] = d[j]) /\ c[k] < d[k]

Exhausted == counters # << >> /\ counters[1] = -1

\* C9: an increment_counter that does not end the sequence makes the
\* counters lexicographically larger; the iteration reaches counters[0] =
\* -1 after finitely many paths; from then on the counters stay, get_result
\* is None and __next__ raises StopIteration.
C9_EnumerationTerminates ==
    /\ [][(phase = "iter" /\ counters' # counters /\ counters'[1] # -1)
            => LexLess(counters, counters')]_vars
    /\ <>(phase \in {"raised", "returned"})
    /\ [](phase = "returned" => Exhausted)
    /\ [](Exhausted => get_result(lattice, counters).none)
    /\ [][Exhausted => (counters' = counters /\ ENABLED (RankEnd \/ NextExhausted))]_vars

\* the enumerator gave the 8 paths of a lattice of 2 x 2 x 2 candidates,
\* the last increment wrapping every position, and ended
C9_Witness ==
    /\ phase = "returned"
    /\ Exhausted
    /\ Len(emitted) = 8
    /\ prev = <<1, 1, 1>>
    /\ counters = <<-1, 0, 0>>

----------------------------------------------------------------------------
(* Claims about the filters *)

\* C5: on a lattice of non-empty positions holding only Normal and Geoword
\* candidates, every chain of EntityClass, GeoContains, GeoDisjoint, Time*
\* and GreedySearch filters leaves the number of positions unchanged and
\* every position non-empty.
C5_FiltersKeepPositions ==
    phase = "filter" =>
        /\ Len(lattice) = Len(input)
        /\ \A p \in 1..Len(lattice) : Len(lattice[p]) > 0

\* every candidate of a position of geowords failed a filter and the
\* position holds the Normal node made from its first candidate, while the
\* greedy search cut the other position down to one candidate
C5_Witness ==
    /\ phase = "filter"
    /\ applied >= 2
    /\ Len(input) = 2
    /\ input[1] = <<OldStation, NewCity>>
    /\ Len(lattice[1]) = 1
    /\ lattice[1][1].node_type = NORMAL
    /\ lattice[1][1].morphemes.subclass2 = "chiiki"
    /\ Len(input[2]) = 3
    /\ Len(lattice[2]) = 1
    /\ lattice[2][1].node_type = GEOWORD

----------------------------------------------------------------------------
(* Claims about the address resolver *)

RECURSIVE Flatten(_)
\* ''.join(strings)
Flatten(strings) ==
    IF strings = << >> THEN << >>
    ELSE strings[1] \o Flatten(SubSeq(strings, 2, Len(strings)))

\* C10: an Address node made at position p with k inner morphemes has the
\* surface that positions p..p+k-1 of the lattice it was made from spell,
\* which is also what its inner morphemes spell: the matched string never
\* ends inside a morpheme.
C10_AddressSpansWholeMorphemes ==
    \A m \in 1..Len(made) : \A k \in 1..Len(made[m].nodes) :
        /\ Len(made[m].nodes[k].inner) = Len(made[m].part)
        /\ made[m].nodes[k].surface =
              Flatten([p \in 1..Len(made[m].part) |->
                          made[m].part[p][1].surface])
        /\ made[m].nodes[k].surface = Flatten(made[m].nodes[k].inner)

\* the parent the binding of position k starts from: the last geoword bound
\* before k, or the node of the address itself
ParentAt(k) ==
    IF \E j \in 1..(k - 1) : out[j].node_type = GEOWORD
    THEN out[Max({j \in 1..(k - 1) : out[j].node_type = GEOWORD})]
    ELSE ParentNode(args.address_element)

\* the candidates of position k that can be bound: geowords of an address
\* class related to the parent
Qualifying(k) ==
    {j \in 1..Len(args.lattice_part[k]) :
        /\ args.lattice_part[k][j].node_type = GEOWORD
        /\ args.lattice_part[k][j].prop.ne_class \in AddressClasses
        /\ node_relation_score(ParentAt(k), args.lattice_part[k][j]) > 0}

\* C11: a position without a Geoword candidate keeps its first candidate; a
\* position with a Geoword candidate at any index, whose surface is a
\* fullname label, is bound to the address-class Geoword of highest
\* node_relation_score with the running parent, or to a Normal node of
\* subclass koyuu/chiiki when no candidate qualifies.
C11_InnerMorphemeBinding ==
    phase = "bound" =>
        /\ Len(out) = Len(args.lattice_part)
        /\ \A k \in 1..Len(out) :
            LET nodes == args.lattice_part[k]
                labelled ==
                    \E j \in 1..Len(args.address_element.fullname) :
                        args.address_element.fullname[j] = nodes[1].surface
            IN /\ (\A j \in 1..Len(nodes) : nodes[j].node_type # GEOWORD)
                    => out[k] = nodes[1]
               /\ ((\E j \in 1..Len(nodes) : nodes[j].node_type = GEOWORD)
                    /\ labelled /\ Qualifying(k) # {})
                    => \E j \in Qualifying(k) :
                          /\ out[k] = nodes[j]
                          /\ \A i \in Qualifying(k) :
                                node_relation_score(ParentAt(k), nodes[i])
                                    <= node_relation_score(ParentAt(k),
                                                           nodes[j])
               /\ ((\E j \in 1..Len(nodes) : nodes[j].node_type = GEOWORD)
                    /\ labelled /\ Qualifying(k) = {})
                    => /\ out[k].node_type = NORMAL
                       /\ out[k].morphemes.subclass1 = "koyuu"
                       /\ out[k].morphemes.subclass2 = "chiiki"

RECURSIVE Shift(_)
\* how far the spans made before the m-th have shortened the lattice
Shift(m) ==
    IF m <= 1 \/ keep_nodes THEN 0
    ELSE Shift(m - 1) + Len(made[m - 1].part) - 1

\* the position, in the lattice handed in, at which the m-th span starts
InputPos(m) == made[m].at + Shift(m)

RECURSIVE Collapsed(_, _)
\* the lattice handed in from position pos on, each span from the m-th on
\* replaced by one position holding its Address nodes
Collapsed(m, pos) ==
    IF m > Len(made) THEN Slice(input, pos, Len(input))
    ELSE Slice(input, pos, InputPos(m))
         \o <<made[m].nodes>>
         \o Collapsed(m + 1, InputPos(m) + Len(made[m].part))

\* the lattice handed in, the Address nodes of each span appended to the
\* position at which the span starts
Extended ==
    [p \in 1..Len(input) |->
        IF \E m \in 1..Len(made) : made[m].at = p - 1
        THEN input[p]
             \o made[CHOOSE m \in 1..Len(made) : made[m].at = p - 1].nodes
        ELSE input[p]]

\* C12: in replace mode every resolved span is replaced by one position
\* holding only the new Address nodes and the other positions stay, in
\* order; in keep mode the Address nodes are appended to the first position
\* of the span and nothing else changes; the spans follow one another
\* without overlap, so no Address starts inside another span.
C12_CollapseModes ==
    phase \in {"address", "addressed"} =>
        /\ \A m \in 1..Len(made) :
              /\ made[m].nodes # << >>
              /\ \A k \in 1..Len(made[m].nodes) :
                    made[m].nodes[k].node_type = ADDRESS
              /\ made[m].part # << >>
              /\ made[m].part =
                    Slice(input, InputPos(m), InputPos(m) + Len(made[m].part))
              /\ m > 1 => InputPos(m) >=
                              InputPos(m - 1) + Len(made[m - 1].part)
        /\ lattice = (IF keep_nodes THEN Extended ELSE Collapsed(1, 0))

\* keep mode: an address over the first two positions, the second of which
\* could start an address itself and holds what it held
C12_Witness ==
    /\ phase = "addressed"
    /\ keep_nodes
    /\ Len(input) = 3
    /\ Len(made) = 1
    /\ made[1].at = 0
    /\ Len(made[1].part) = 2
    /\ can_be_address(input[2])
    /\ lattice[2] = input[2]
    /\ Len(lattice[1]) = Len(input[1]) + 2

----------------------------------------------------------------------------
(* Claims about a single call of Filter.apply *)

\* the position lost every candidate to the filter
NonePasses(i) == Len(apply_filter(args.f, args.input[i])) = 0

\* the Normal node convert_to_normal is to leave at position i
IsConverted(node, i) ==
    LET candidates == args.input[i]
        normals == {k \in 1..Len(candidates) :
                        candidates[k].node_type = NORMAL}
    IN IF normals # {} THEN node = candidates[Min(normals)]
       ELSE /\ node.surface = candidates[1].surface
            /\ node.node_type = NORMAL
            /\ node.morphemes.pos = "meishi"
            /\ node.morphemes.subclass1 = "koyuu"
            /\ node.morphemes.subclass2 = "chiiki"
            /\ node.geometry = NoValue
            /\ node.prop = NoProp

\* C13: a filter of policy convert_to_normal, on a lattice whose dates all
\* parse, does not raise, and a position at which no candidate passes,
\* Address nodes only or not, holds exactly one Normal node: the first
\* Normal candidate, or a node of the same surface with the part of speech
\* of a place name, no geometry and no properties.
C13_ConvertToNormal ==
    (phase = "applied" /\ ~FilterRaises(args.f, args.input)) =>
        /\ out.raised = "none"
        /\ \A i \in 1..Len(args.input) :
              NonePasses(i) =>
                  /\ Len(out.output[i]) = 1
                  /\ IsConverted(out.output[i][1], i)

\* C14: Filter.apply leaves the lattice it was given, and every node in
\* it, as they were before the call.
C14_ApplyLeavesInput ==
    phase = "applied" => out.input = args.input

----------------------------------------------------------------------------
(* Claims about the temporal filters *)

ValidFrom(candidate) == PropGet(candidate.prop, "valid_from", NoValue)
ValidTo(candidate) == PropGet(candidate.prop, "valid_to", NoValue)

\* a Normal node, or a node whose properties hold no valid_from and no
\* valid_to, absent or empty
NoTemporalProps(candidate) ==
    \/ candidate.prop = NoProp
    \/ ValidFrom(candidate) = NoValue /\ ValidTo(candidate) = NoValue

\* C15: for each of the six temporal filters a candidate with no temporal
\* properties (a Normal node, or a Geoword or Address with neither
\* valid_from nor valid_to) passes filter_func.
C15_UndatedAlwaysPasses ==
    (phase = "timed" /\ NoTemporalProps(args.candidate)) =>
        ~out.raised /\ out.passed

\* the call is one of TimeContainsFilter on a candidate with a date, every
\* date of which parses
ContainsOnDated ==
    /\ phase = "timed"
    /\ args.kind = "TimeContains"
    /\ ~NoTemporalProps(args.candidate)
    /\ ~out.raised

\* C16 as stated: TimeContainsFilter passes a candidate with temporal
\* properties iff both dates are set and the candidate's interval lies
\* strictly inside the filter's; a date equal to an end does not pass.
C16_ContainsStrictlyInside ==
    ContainsOnDated =>
        (out.passed <=>
            /\ ValidFrom(args.candidate) # NoValue
            /\ ValidTo(args.candidate) # NoValue
            /\ ValidFrom(args.candidate)[1] > out.duration[1]
            /\ ValidTo(args.candidate)[1] < out.duration[2])

\* C16 amended: TimeContainsFilter passes a candidate with temporal
\* properties iff both dates are set, valid_from is not before the filter's
\* from and valid_to is not after the filter's to; a date equal to an end
\* passes.
C16_ContainsInside ==
    ContainsOnDated =>
        (out.passed <=>
            /\ ValidFrom(args.candidate) # NoValue
            /\ ValidTo(args.candidate) # NoValue
            /\ ValidFrom(args.candidate)[1] >= out.duration[1]
            /\ ValidTo(args.candidate)[1] <= out.duration[2])

\* a candidate whose dates are the ends of the filter's duration passed
C16_Witness ==
    /\ ContainsOnDated
    /\ ValidFrom(args.candidate) = <<out.duration[1]>>
    /\ ValidTo(args.candidate) = <<out.duration[2]>>
    /\ out.duration[1] < out.duration[2]
    /\ out.passed

\* C17: the duration of a temporal filter has from <= to whatever the order
\* of the two dates, one date gives from = to, and the filter built from
\* the dates the other way round has the same duration and gives the same
\* answer on the candidate.
C17_DurationOrdered ==
    phase = "timed" =>
        /\ out.duration[1] <= out.duration[2]
        /\ args.date_to = NoValue =>
              /\ out.duration[1] = args.date_from[1]
              /\ out.duration[2] = args.date_from[1]
        /\ args.date_to # NoValue =>
              /\ out.duration = <<Min({args.date_from[1], args.date_to[1]}),
                                  Max({args.date_from[1], args.date_to[1]})>>
              /\ out = TimeResult(args.kind, args.date_to, args.date_from,
                                  args.candidate)

\* the later date came first and the filter told dated candidates apart
C17_Witness ==
    /\ phase = "timed"
    /\ args.date_to # NoValue
    /\ args.date_from[1] > args.date_to[1]
    /\ ~NoTemporalProps(args.candidate)
    /\ ~out.raised
    /\ ~out.passed

----------------------------------------------------------------------------
(* Claims about path_score *)

\* the positions of the geoword and address nodes of the path
GeoNodes == {k \in 1..Len(args.path) : args.path[k].node_type # NORMAL}

\* the next nlookup geoword and address nodes after position i0
LookAhead(i0, nlookup) ==
    {i1 \in GeoNodes :
        /\ i1 > i0
        /\ Cardinality({j \in GeoNodes : i0 < j /\ j <= i1}) <= nlookup}

\* the score of the path before the relations between its nodes: a point
\* for every Normal node, ten for every level of an address, ten for every
\* geoword of a class that occurs more than once
StaticScore ==
    LET geowords == {k \in GeoNodes : args.path[k].node_type = GEOWORD}
        addresses == GeoNodes \ geowords
        repeated == {k \in geowords :
                        \E j \in geowords \ {k} :
                            args.path[j].prop.ne_class
                                = args.path[k].prop.ne_class}
    IN (Len(args.path) - Cardinality(GeoNodes))
       + SumOver([k \in addresses |-> 10 * Len(args.path[k].inner)],
                 addresses)
       + 10 * Cardinality(repeated)

\* the relation scores of every geoword or address node with the nodes of
\* its own window
WindowScore(nlookup) ==
    LET pairs == {pr \in GeoNodes \X GeoNodes :
                     pr[2] \in LookAhead(pr[1], nlookup)}
    IN SumOver([pr \in pairs |->
                   node_relation_score(args.path[pr[1]], args.path[pr[2]])],
               pairs)

\* C18: path_score adds, for every geoword or address node n0 of the path,
\* node_relation_score(n0, n1) for each of the next nlookup (5) geoword or
\* address nodes n1 after n0: every n0 has its own full window.
C18_WindowPerNode ==
    phase = "scored" =>
        out.score = StaticScore + WindowScore(DEFAULT_NLOOKUP)

\* C19: path_score(path) is at least the number of Normal nodes of the
\* path.
C19_ScoreAtLeastNormals ==
    phase = "scored" =>
        out.score >= Len(args.path) - Cardinality(GeoNodes)

\* a path of a Normal node and two unrelated nodes far apart, which add
\* nothing to the score
C19_Witness ==
    /\ phase = "scored"
    /\ Len(args.path) = 3
    /\ args.path[1] = StationA1
    /\ args.path[2].node_type = NORMAL
    /\ args.path[3] = FarTownCD
    /\ out.score = 1

----------------------------------------------------------------------------
(* Claims about Node.get_notations *)

\* the notations of a Geoword: body, prefix+body, body+suffix,
\* prefix+body+suffix
GeowordNotations(prop) ==
    LET P == {prop.prefix[i] : i \in 1..Len(prop.prefix)}
        S == {prop.suffix[j] : j \in 1..Len(prop.suffix)}
    IN {prop.body}
       \cup {x \o prop.body : x \in P}
       \cup {prop.body \o y : y \in S}
       \cup {x \o prop.body \o y : x \in P, y \in S}

\* C20: get_notations returns {surface} for a Normal or Address node and,
\* for a Geoword, the set of body, prefix+body, body+suffix and
\* prefix+body+suffix; a second call returns the same set.
C20_Notations ==
    (phase = "notations" /\ Len(out.returned) >= 1) =>
        /\ out.returned[1] =
              (IF args.node.node_type = GEOWORD
               THEN GeowordNotations(args.node.prop)
               ELSE {args.node.surface})
        /\ \A k \in 1..Len(out.returned) : out.returned[k] = out.returned[1]

----------------------------------------------------------------------------
(* Claims about Workflow.set_filters and count_geowords *)

\* the positions that hold a geoword
GeowordPositions ==
    {p \in 1..Len(args.lattice) :
        \E k \in 1..Len(args.lattice[p]) :
            args.lattice[p][k].node_type = GEOWORD}

\* the positions that hold a geoword of the class or of one of its
\* sub-classes
Covered(label) ==
    {p \in GeowordPositions :
        \E ne \in NeSet(args.lattice[p]) : ne = label \/ ne_basic(ne) = label}

\* at least 5 geoword positions, at least 75% of which the class covers
Covers75(label) ==
    /\ Cardinality(GeowordPositions) >= 5
    /\ 4 * Cardinality(Covered(label)) >= 3 * Cardinality(GeowordPositions)

\* the pattern of the first class, in the order prefecture, city, railway,
\* for which the test holds; {} when it holds for none
Chosen(pref, city, rail) ==
    IF pref THEN <<PrefPattern>>
    ELSE IF city THEN <<CityPattern>>
    ELSE IF rail THEN <<RailPattern>>
    ELSE << >>

\* C21 as stated: when one of prefecture, city and railway, in that order,
\* covers at least 75% of at least 5 geoword positions, set_filters returns
\* the matching EntityClassFilter, then the caller's filters, then a
\* GreedySearchFilter; otherwise the caller's filters.
C21_EntityFilterFirst ==
    phase = "filters_set" =>
        LET chosen == Chosen(Covers75("pref"), Covers75("city"),
                             Covers75("rail"))
        IN out.filters =
              (IF chosen = << >> THEN args.filters
               ELSE <<EntityClassFilter(chosen[1])>> \o args.filters
                    \o <<GreedySearchFilter>>)

\* C21 amended: when the statistics of count_geowords give at least 5
\* geoword positions and, for the first of prefecture, city and railway,
\* ne_classes[class] / num_geowords >= 0.75, set_filters returns the
\* caller's filters in their order, then the matching EntityClassFilter,
\* then a GreedySearchFilter; otherwise the caller's filters.
C21_EntityFilterAfterUser ==
    phase = "filters_set" =>
        LET chosen == Chosen(Dominant(out.gstat, "pref"),
                             Dominant(out.gstat, "city"),
                             Dominant(out.gstat, "rail"))
        IN out.filters =
              (IF chosen = << >> THEN args.filters
               ELSE args.filters \o <<EntityClassFilter(chosen[1]),
                                      GreedySearchFilter>>)

\* four cities and a prefecture with two filters of the caller: the city
\* filter and the greedy search come after the caller's
C21_Witness ==
    /\ phase = "filters_set"
    /\ Len(args.filters) = 2
    /\ Cardinality(GeowordPositions) = 5
    /\ Cardinality(Covered("city")) = 4
    /\ Len(out.filters) = 4
    /\ out.filters[3] = EntityClassFilter(CityPattern)
    /\ out.filters[4] = GreedySearchFilter

\* C29: every value of ne_classes is a number of positions holding a
\* geoword of that class, so ne_classes[c] <= num_geowords for every key.
C29_ClassCountsArePositions ==
    phase = "filters_set" =>
        \A c \in DOMAIN out.gstat.ne_classes :
            /\ out.gstat.ne_classes[c] = Cardinality(Covered(c))
            /\ out.gstat.ne_classes[c] <= out.gstat.num_geowords

----------------------------------------------------------------------------
(* Claims about repeated calls of geoparse *)

\* C22: two calls of geoparse with the same text and the same caller's
\* filter list return the same features whatever was parsed in between,
\* and a call leaves the caller's list with the elements it had.
C22_HistoryIndependent ==
    phase = "session" =>
        /\ out.filters = args.filters
        /\ \A i, j \in 1..Len(out.calls) :
              out.calls[i].text = out.calls[j].text =>
                  out.calls[i].features = out.calls[j].features

----------------------------------------------------------------------------
(* Claims about Parser.analyze_sentence *)

\* the words with a surface among those the loop has passed
PassedWords ==
    SelectSeq(SubSeq(args.words, 1, Min({idx, Len(args.words)})),
              LAMBDA word : word.surface # << >>)

\* C23: the lattice of analyze_sentence holds one position per word with a
\* non-empty surface, in the order of the words, and every candidate of a
\* position has the surface of its word, whichever rule consumed the word:
\* no word is dropped or emitted twice.
C23_OnePositionPerWord ==
    phase \in {"analyze", "analyzed"} =>
        /\ idx <= Len(args.words)
        /\ Len(lattice) = Len(PassedWords)
        /\ \A p \in 1..Len(lattice) :
              \A k \in 1..Len(lattice[p]) :
                  lattice[p][k].surface = PassedWords[p].surface

\* two nouns and a name suffix went through the third person-name rule
C23_Witness ==
    /\ phase = "analyzed"
    /\ Len(args.words) = 5
    /\ IsPerson3(1)
    /\ ~IsPerson1(1)
    /\ ~IsPerson2(1)
    /\ Len(lattice) = 3

----------------------------------------------------------------------------
(* Claims about the active dictionaries *)

\* the dictionaries the last call named
LastSelected(among) == Selected(among, out.idlist, out.pattern)

C25_DisactivateAllSucceeds ==
    phase = "dictionaries" =>
        /\ out.op = "disactivate" /\ out.pattern = <<DictNames>>
              => ~out.raised /\ out.active = {}
        /\ out.op = "options"
           /\ out.options = [set_dic |-> NoValue,
                             remove_dic |-> <<DictNames>>,
                             add_dic |-> <<{"city"}>>]
              => ~out.raised /\ out.active = args.installed \cap {"city"}

----------------------------------------------------------------------------
(* Claims about the web service *)

\* C26: what geonlp.parse sets in the process for a request - the active
\* dictionaries and classes, the filters of the workflow and the geocoder
\* flag - is serialized with the geoparse of that request: of two requests
\* handled by interleaving threads each is parsed under its own options.
C26_ParsedUnderOwnOptions ==
    phase = "web" =>
        \A r \in Requests :
            out.pc[r] = "done" =>
                out.parsed[r] = OwnSettings(args.requests[r])

----------------------------------------------------------------------------
(* Claims about the enumeration of LinkedResults *)

\* no candidate of the lattice is an address
NoAddressNodes(l) ==
    \A p \in 1..Len(l) : \A k \in 1..Len(l[p]) : l[p][k].node_type # ADDRESS

\* one candidate index for each position
Selections0(l) ==
    {c \in [1..Len(l) -> 0..Max({Len(l[p]) : p \in 1..Len(l)}) - 1] :
        \A p \in 1..Len(l) : c[p] < Len(l[p])}

\* C27: on a lattice without Address nodes LinkedResults emits every
\* selection of one candidate per position exactly once, the whole Cartesian
\* product, as many paths as count_combinations gives, also when a position
\* holds a Normal candidate next to Geoword candidates.
C27_WholeProduct ==
    (phase = "returned" /\ NoAddressNodes(lattice)) =>
        /\ Len(emitted) = count_combinations(lattice)
        /\ \A i, j \in 1..Len(emitted) : i # j => emitted[i] # emitted[j]
        /\ \A c \in Selections0(lattice) :
              \E i \in 1..Len(emitted) : emitted[i] = c

----------------------------------------------------------------------------
(* Claims about the paths over a lattice with addresses *)

\* the morphemes a node of a path stands for
SpanOf(node) == IF node.node_type = ADDRESS THEN Len(node.inner) ELSE 1

RECURSIVE SpanSum(_)
SpanSum(path) ==
    IF path = << >> THEN 0 ELSE SpanOf(Head(path)) + SpanSum(Tail(path))

\* C28: every path LinkedResults emits covers each morpheme of the sentence
\* once: the spans of its nodes (1 for Normal and Geoword, the number of
\* inner morphemes for Address) sum to the number of morphemes, for the
\* lattice of add_address_candidates in either mode, also after a filter
\* removed every candidate but the Address at the first position of an
\* Address of a keep-mode lattice.
C28_PathCoversEachMorpheme ==
    (phase \in {"iter", "returned"} /\ results # << >>) =>
        SpanSum(results[1].result) = Len(input)

----------------------------------------------------------------------------
(* Claims about GreedySearchFilter *)

\* the geoword candidates of a position
GeowordsOf(nodes) == SelectSeq(nodes, LAMBDA node : node.node_type = GEOWORD)

\* the hint positions of a lattice (1-based), in the order of the sentence
HintSeq(l) ==
    SelectSeq([p \in 1..Len(l) |-> p], LAMBDA p : GeowordsOf(l[p]) # << >>)

\* the score of a candidate against the geowords of a hint position
HintScore(node, hint) ==
    SumOver([k \in 1..Len(hint) |-> node_relation_score(node, hint[k])],
            1..Len(hint))

\* the candidates of the highest score against a hint
TiedAtMax(nodes, hint) ==
    SelectSeq(nodes, LAMBDA node :
        \A k \in 1..Len(nodes) :
            HintScore(node, hint) >= HintScore(nodes[k], hint))

\* the hints examined from the h-th of H hints: at each distance the left
\* one, then the right one
ExaminedFrom(h, H) ==
    SelectSeq([j \in 1..(2 * (H - 1)) |->
                  IF j % 2 = 1 THEN h - ((j + 1) \div 2) ELSE h + (j \div 2)],
              LAMBDA k : k >= 1 /\ k <= H)

\* what the claim leaves of the position p of l, a hint position
GreedyExpected(l, p) ==
    LET hints == HintSeq(l)
        h == CHOOSE k \in 1..Len(hints) : hints[k] = p
        order == ExaminedFrom(h, Len(hints))
        tied == [j \in 1..Len(order) |->
                    TiedAtMax(l[p], GeowordsOf(l[hints[order[j]]]))]
        decisive == {j \in 1..Len(order) : Len(tied[j]) = 1}
    IN IF order = << >> THEN l[p]
       ELSE IF decisive # {} THEN tied[Min(decisive)]
       ELSE tied[Len(order)]

====
